---- MODULE Spec2Model ----
(***************************************************************************)
(* A model of GeminiImageManipulator (src/src/main.ts): the Message List,  *)
(* the Output List, the persistence store, template loading and the two    *)
(* streaming generation flows.                                             *)
(*                                                                         *)
(* Strings are sequences of one-character strings, so that trim, split,    *)
(* concatenation and prefix tests are computed and not assumed. A value    *)
(* that may be null is a sequence of length 0 (null) or 1 (the value).     *)
(* Message objects live in a heap and arrays hold references, because the  *)
(* code shares message objects between arrays and mutates both in place.   *)
(***************************************************************************)
EXTENDS Integers, Sequences, FiniteSets, TLC

VARIABLES
    heap,          \* message objects by reference: [id, text, image]
    messages,      \* this.messages: the current array, a sequence of references
    nextId,        \* this.nextId
    draggedId,     \* this.draggedId (<<>> is null)
    rendered,      \* ids of the message elements in the DOM, in order
    outputs,       \* this.outputs: sequence of [id, imageUrl, text, loading]
    nextOutputId,  \* this.nextOutputId
    apiKeyInput,   \* elements.apiKeyInput.value
    systemMessage, \* elements.systemMessage.value
    store,         \* the key-value store: apiKey, systemMessage, messages, outputs
    flows,         \* the generation flows (handleGenerateImage / handleGenerateText calls)
    loads,         \* the loadTemplate calls
    uploads,       \* the updateMessageImage calls
    phase,         \* "loading" until the constructor's loadState has settled, then "ready"
    alert,         \* the text the last step passed to alert(), "" if it showed none
    issued         \* ids handed out by this instance so far

vars == <<heap, messages, nextId, draggedId, rendered, outputs, nextOutputId,
          apiKeyInput, systemMessage, store, flows, loads, uploads, phase,
          alert, issued>>

listVars == <<heap, messages, nextId, draggedId, rendered, issued>>
outVars == <<outputs, nextOutputId>>
inputVars == <<apiKeyInput, systemMessage>>
procVars == <<flows, loads, uploads>>

----------------------------------------------------------------------------
(* Bounds of the model *)

\* the Message List operations stop issuing ids after this one
MaxListId == 5
\* with template loads and uploads around, addItem stops after this id
MaxMsgId == 2
\* loadTemplate calls that may be suspended at once
MaxLoads == 1
\* updateMessageImage calls that may be suspended at once
MaxUploads == 1
\* number of generation flows that may be started
MaxFlows == 2
\* chunks one response stream may deliver
MaxChunks == 2
\* the ids addItem hands out while generations are followed
MaxItemId == 1
\* the outputs one instance creates at most
MaxOutputId == 2

----------------------------------------------------------------------------
(* Strings *)

Null == <<>>
Some(v) == <<v>>

WhiteSpace == {" ", "\n", "\t"}

RECURSIVE TrimStart(_)
TrimStart(s) ==
    IF s # <<>> /\ Head(s) \in WhiteSpace THEN TrimStart(Tail(s)) ELSE s

RECURSIVE TrimEnd(_)
TrimEnd(s) ==
    IF s # <<>> /\ s[Len(s)] \in WhiteSpace
    THEN TrimEnd(SubSeq(s, 1, Len(s) - 1))
    ELSE s

\* String.prototype.trim
Trim(s) == TrimEnd(TrimStart(s))

\* String.prototype.startsWith
StartsWith(s, p) == Len(s) >= Len(p) /\ SubSeq(s, 1, Len(p)) = p

Digits == <<"0", "1", "2", "3", "4", "5", "6", "7", "8", "9">>

RECURSIVE String(_)
\* String(n) for a non-negative integer: its decimal digits
String(n) ==
    IF n < 10 THEN <<Digits[n + 1]>>
    ELSE String(n \div 10) \o <<Digits[(n % 10) + 1]>>

DigitValue(c) == (CHOOSE i \in 1..10 : Digits[i] = c) - 1

RECURSIVE ParseDigits(_, _)
ParseDigits(s, acc) ==
    IF s = <<>> THEN acc
    ELSE ParseDigits(Tail(s), acc * 10 + DigitValue(Head(s)))

\* parseInt on a string of decimal digits
ParseInt(s) == ParseDigits(s, 0)

RECURSIVE MaxOf(_, _)
\* Math.max(...xs, floor)
MaxOf(xs, floor) ==
    IF xs = <<>> THEN floor
    ELSE LET m == MaxOf(Tail(xs), floor)
         IN  IF Head(xs) > m THEN Head(xs) ELSE m

Map(s, F(_)) == [i \in 1..Len(s) |-> F(s[i])]

\* Array.prototype.findIndex, 1-based, 0 when nothing matches
FindIndex(s, P(_)) ==
    IF \E i \in 1..Len(s) : P(s[i])
    THEN CHOOSE i \in 1..Len(s) : P(s[i]) /\ \A j \in 1..(i - 1) : ~P(s[j])
    ELSE 0

\* splice(at, 1): the sequence without its element at 1-based position at
RemoveAt(s, at) == SubSeq(s, 1, at - 1) \o SubSeq(s, at + 1, Len(s))

\* splice(k, 0, x) with 0-based k, clamped to the length as splice does
InsertAt(s, k, x) ==
    LET kk == IF k > Len(s) THEN Len(s) ELSE IF k < 0 THEN 0 ELSE k
    IN  SubSeq(s, 1, kk) \o <<x>> \o SubSeq(s, kk + 1, Len(s))

Range(s) == {s[i] : i \in 1..Len(s)}

----------------------------------------------------------------------------
(* Blob Codec *)

B64Alphabet ==
    <<"A", "B", "C", "D", "E", "F", "G", "H", "I", "J", "K", "L", "M",
      "N", "O", "P", "Q", "R", "S", "T", "U", "V", "W", "X", "Y", "Z",
      "a", "b", "c", "d", "e", "f", "g", "h", "i", "j", "k", "l", "m",
      "n", "o", "p", "q", "r", "s", "t", "u", "v", "w", "x", "y", "z",
      "0", "1", "2", "3", "4", "5", "6", "7", "8", "9", "+", "/">>

B64(n) == B64Alphabet[n + 1]

RECURSIVE Base64Encode(_)
\* the base64 text FileReader.readAsDataURL produces for a byte sequence
Base64Encode(b) ==
    IF Len(b) = 0 THEN <<>>
    ELSE IF Len(b) = 1 THEN
        <<B64(b[1] \div 4), B64((b[1] % 4) * 16), "=", "=">>
    ELSE IF Len(b) = 2 THEN
        <<B64(b[1] \div 4), B64((b[1] % 4) * 16 + b[2] \div 16),
          B64((b[2] % 16) * 4), "=">>
    ELSE
        <<B64(b[1] \div 4), B64((b[1] % 4) * 16 + b[2] \div 16),
          B64((b[2] % 16) * 4 + b[3] \div 64), B64(b[3] % 64)>>
        \o Base64Encode(SubSeq(b, 4, Len(b)))

DATA_PREFIX == <<"d", "a", "t", "a", ":">>
BASE64_MARK == <<";", "b", "a", "s", "e", "6", "4", ",">>

\* FileReader.readAsDataURL(blob), as blobToDataUrl resolves it
blobToDataUrl(blob) ==
    DATA_PREFIX \o blob.type \o BASE64_MARK \o Base64Encode(blob.bytes)

RECURSIVE SplitOn(_, _, _)
\* String.prototype.split(sep): the pieces between occurrences of the character sep
SplitOn(s, sep, cur) ==
    IF s = <<>> THEN <<cur>>
    ELSE IF Head(s) = sep THEN <<cur>> \o SplitOn(Tail(s), sep, <<>>)
    ELSE SplitOn(Tail(s), sep, Append(cur, Head(s)))

\* blobToBase64: dataUrl.split(",")[1]
blobToBase64(blob) == SplitOn(blobToDataUrl(blob), ",", <<>>)[2]

IMAGE_SLASH == <<"i", "m", "a", "g", "e", "/">>
IMAGE_PNG == IMAGE_SLASH \o <<"p", "n", "g">>
IMAGE_GIF == IMAGE_SLASH \o <<"g", "i", "f">>
TEXT_PLAIN == <<"t", "e", "x", "t", "/", "p", "l", "a", "i", "n">>

\* binary inputs: two images and a text file
BlobPng == [bytes |-> <<137, 80>>, type |-> IMAGE_PNG]
BlobGif == [bytes |-> <<71, 73, 70>>, type |-> IMAGE_GIF]
BlobTxt == [bytes |-> <<104>>, type |-> TEXT_PLAIN]

----------------------------------------------------------------------------
(* Content Serializer *)

NoImage == Null

\* "See image:"
SEE_IMAGE ==
    <<"S", "e", "e", " ", "i", "m", "a", "g", "e", ":">>

TextPart(t) == [kind |-> "text", text |-> t, data |-> <<>>, mimeType |-> <<>>]
InlinePart(d, m) == [kind |-> "inlineData", text |-> <<>>, data |-> d, mimeType |-> m]

\* a separator that is a space in both modes
SeparatorSpace(kind) == <<" ">>

\* what stands between the text and "See image:": a newline in
\* generateImageContent, a space in generateTextContent
Separator(kind) == IF kind = "image" THEN <<"\n">> ELSE <<" ">>

\* textWithPrompt
TextWithPrompt(kind, text) ==
    IF Trim(text) # <<>> THEN Trim(text) \o Separator(kind) \o SEE_IMAGE
    ELSE SEE_IMAGE

\* a serializer that puts the system message first in both modes
FirstPartsAnyMode(kind, systemMsg) ==
    IF systemMsg # <<>> THEN <<TextPart(Trim(systemMsg))>> ELSE <<>>

\* the parts generateImageContent starts with: the system message as a user part
FirstParts(kind, systemMsg) ==
    IF kind = "image" /\ systemMsg # <<>> THEN <<TextPart(Trim(systemMsg))>> ELSE <<>>

\* a test for an empty item that does not trim
IsEmptyItemUntrimmed(message) == message.image = NoImage /\ message.text = <<>>

\* !message.image && !message.text.trim()
IsEmptyItem(message) == message.image = NoImage /\ Trim(message.text) = <<>>

RECURSIVE SerializeLoop(_, _, _, _, _)
\* the loop "for (const message of this.messages)" from iterator position idx
\* (1-based) on, over the array arr as it is now, until the loop ends or
\* awaits blobToBase64 for an image
SerializeLoop(kind, h, arr, idx, parts) ==
    IF idx > Len(arr)
    THEN [waiting |-> FALSE, idx |-> idx, cur |-> 0, blob |-> Null, parts |-> parts]
    ELSE LET message == h[arr[idx]]
         IN  IF IsEmptyItem(message)
             THEN SerializeLoop(kind, h, arr, idx + 1, parts)
             ELSE IF message.image # NoImage
             THEN [waiting |-> TRUE, idx |-> idx, cur |-> arr[idx],
                   blob |-> Some(message.image[1].blob),
                   parts |-> Append(parts, TextPart(TextWithPrompt(kind, message.text)))]
             ELSE SerializeLoop(kind, h, arr, idx + 1,
                                Append(parts, TextPart(Trim(message.text))))

RECURSIVE SnapshotLoop(_, _, _)
\* the parts the serializer's rules give for the items of one list state
SnapshotLoop(kind, items, parts) ==
    IF items = <<>> THEN parts
    ELSE LET message == Head(items)
         IN  IF IsEmptyItem(message)
             THEN SnapshotLoop(kind, Tail(items), parts)
             ELSE IF message.image # NoImage
             THEN SnapshotLoop(kind, Tail(items),
                      parts \o <<TextPart(TextWithPrompt(kind, message.text)),
                                 InlinePart(blobToBase64(message.image[1].blob),
                                            message.image[1].mimeType)>>)
             ELSE SnapshotLoop(kind, Tail(items),
                               Append(parts, TextPart(Trim(message.text))))

\* the serialization of the Message List in the state (h, arr)
Snapshot(kind, systemMsg, h, arr) ==
    SnapshotLoop(kind, [i \in 1..Len(arr) |-> h[arr[i]]], FirstParts(kind, systemMsg))

\* p begins s
IsPrefix(p, s) == Len(p) <= Len(s) /\ SubSeq(s, 1, Len(p)) = p

\* the serializations among cands that the parts built so far still begin;
\* only these can be what the finished parts are
StillPossible(cands, parts) == {c \in cands : IsPrefix(parts, c)}

\* a flow that is serializing notes the serialization of the list state (h, arr)
Noted(f, h, arr) ==
    IF f.pc = "encode"
    THEN [f EXCEPT !.seen = StillPossible(@ \cup {Snapshot(f.kind, f.systemMsg, h, arr)},
                                          f.parts)]
    ELSE f

Noting(fl, h, arr) == [i \in DOMAIN fl |-> Noted(fl[i], h, arr)]

----------------------------------------------------------------------------
(* Message List helpers *)

\* the ids of an array of references, in order
IdsOf(h, arr) == [i \in 1..Len(arr) |-> h[arr[i]].id]

\* the message objects of an array of references, in order
ItemsOf(h, arr) == [i \in 1..Len(arr) |-> h[arr[i]]]

\* saveMessages: the messages as written to the store, dataUrl omitted
SerializableMessages(h, arr) ==
    [i \in 1..Len(arr) |->
        LET m == h[arr[i]]
        IN  IF m.image # NoImage
            THEN [id |-> m.id, text |-> m.text,
                  image |-> Some([blob |-> m.image[1].blob,
                                  mimeType |-> m.image[1].mimeType])]
            ELSE [id |-> m.id, text |-> m.text, image |-> NoImage]]

\* a saveOutputs that writes the list as it is
SerializableOutputsAll(outs) == outs

\* saveOutputs: only the outputs that are not loading
SerializableOutputs(outs) == SelectSeq(outs, LAMBDA o : ~o.loading)

\* a reference no live object has
NewRef(h) == CHOOSE r \in 1..(Cardinality(DOMAIN h) + 1) : r \notin DOMAIN h

\* the references a flow still holds
FlowRefs(f) ==
    IF f.pc = "encode" THEN (IF f.live THEN {} ELSE Range(f.arr)) \cup {f.cur}
    ELSE {}

\* the references reachable from the instance and its pending continuations
Roots(msgs, fl, up) ==
    Range(msgs)
    \cup UNION {FlowRefs(fl[i]) : i \in DOMAIN fl}
    \cup {u.ref : u \in up}

\* References are addresses: only which references are equal matters. The
\* state is kept up to renaming: the objects of this.messages are numbered by
\* their position, the other reachable objects follow, unreachable ones go.
Canon(h, msgs, fl, up) ==
    LET inList == Range(msgs)
        others == Roots(msgs, fl, up) \ inList
        n == Len(msgs)
        ren(r) == IF r \in inList
                  THEN CHOOSE i \in 1..n : msgs[i] = r
                  ELSE n + Cardinality({x \in others : x <= r})
        all == inList \cup others
    IN  [heap |-> [k \in 1..Cardinality(all) |-> h[CHOOSE r \in all : ren(r) = k]],
         messages |-> [i \in 1..n |-> i],
         flows |-> [i \in DOMAIN fl |->
                      IF fl[i].pc = "encode"
                      THEN [Noted(fl[i], h, msgs) EXCEPT
                                !.cur = ren(fl[i].cur),
                                !.arr = IF fl[i].live THEN <<>> ELSE Map(fl[i].arr, ren)]
                      ELSE fl[i]],
         uploads |-> {[u EXCEPT !.ref = ren(u.ref)] : u \in up}]

\* the next values of the heap and of everything that holds references
Commit(h, msgs, fl, up) ==
    \E a \in {<<h, msgs, fl, up>>} :
        \E c \in {Canon(a[1], a[2], a[3], a[4])} :
            /\ heap' = c.heap
            /\ messages' = c.messages
            /\ flows' = c.flows
            /\ uploads' = c.uploads

\* a flow iterating this.messages keeps the old array when the field is reassigned
Detach(fl, msgs) ==
    [i \in DOMAIN fl |->
        IF fl[i].pc = "encode" /\ fl[i].live
        THEN [fl[i] EXCEPT !.live = FALSE, !.arr = msgs]
        ELSE fl[i]]

----------------------------------------------------------------------------
(* Inputs *)

\* what the user may type into a message textarea
Texts == {<<>>, <<" ">>, <<"h", "i">>}
\* the one edit tried where the text typed does not matter
SomeTexts == {<<"h", "i">>}
\* what the user may type into the API key input
Keys == {<<>>, <<"k">>}
\* what the user may type into the system message textarea
SystemTexts == {<<>>, <<"s">>}

NoStore == [apiKey |-> Null, systemMessage |-> Null, messages |-> Null, outputs |-> Null]

\* a store an earlier session left: a key, an image item and an empty item
SavedStore ==
    [apiKey |-> Some(<<"k">>), systemMessage |-> Null,
     messages |-> Some(<<
        [id |-> String(1), text |-> <<"h", "i">>,
         image |-> Some([blob |-> BlobPng, mimeType |-> IMAGE_PNG])],
        [id |-> String(2), text |-> <<>>, image |-> NoImage]>>),
     outputs |-> Some(<<>>)]

\* the stores the page may be opened on
InitStores == {NoStore, SavedStore}

\* a flow slot nothing runs in. The fields are the locals of a generation
\* flow; seen and snapshot are history: the serializations of the list states
\* passed while the parts were built, and whether the parts are one of them;
\* updates counts the flow's calls of updateOutput
IdleFlow ==
    [pc |-> "idle", kind |-> "none", outputId |-> Null, systemMsg |-> <<>>,
     live |-> FALSE, arr |-> <<>>, idx |-> 0, cur |-> 0, blob |-> Null,
     parts |-> <<>>, config |-> Null, images |-> <<>>, text |-> <<>>,
     chunks |-> 0, updates |-> 0, err |-> Null, seen |-> {}, snapshot |-> TRUE]

----------------------------------------------------------------------------
(* Construction and loadState *)

\* the fields the constructor sets, before loadState has run
Fresh ==
    /\ heap = <<>>
    /\ messages = <<>>
    /\ nextId = 1
    /\ draggedId = Null
    /\ rendered = <<>>
    /\ outputs = <<>>
    /\ nextOutputId = 1
    /\ apiKeyInput = <<>>
    /\ systemMessage = <<>>
    /\ flows = [i \in 1..MaxFlows |-> IdleFlow]
    /\ loads = {}
    /\ uploads = {}
    /\ phase = "loading"
    /\ issued = {}

Init ==
    /\ Fresh
    /\ store \in InitStores
    /\ alert = ""

\* a message read back from the store with no dataUrl rebuilt for it
ReconstructBlank(msg) ==
    IF msg.image # NoImage
    THEN [id |-> msg.id, text |-> msg.text,
          image |-> Some([blob |-> msg.image[1].blob,
                          mimeType |-> msg.image[1].mimeType,
                          dataUrl |-> <<>>])]
    ELSE msg

\* a message read back from the store, its dataUrl rebuilt from the blob
Reconstruct(msg) ==
    IF msg.image # NoImage
    THEN [id |-> msg.id, text |-> msg.text,
          image |-> Some([blob |-> msg.image[1].blob,
                          mimeType |-> msg.image[1].mimeType,
                          dataUrl |-> blobToDataUrl(msg.image[1].blob)])]
    ELSE msg

\* loadState; failAt = k > 0 makes the k-th read of the store throw
\* (1 apiKey, 2 systemMessage, 3 messages or their decoding, 4 outputs)
LoadState(failAt) ==
    /\ phase = "loading"
    /\ LET ran(k) == failAt = 0 \/ failAt > k
           gotMsgs == ran(3) /\ store.messages # Null
           gotOuts == ran(4) /\ store.outputs # Null
           msgs == IF gotMsgs THEN Map(store.messages[1], Reconstruct) ELSE <<>>
           outs == IF gotOuts THEN SelectSeq(store.outputs[1], LAMBDA o : ~o.loading)
                   ELSE <<>>
       IN  /\ apiKeyInput' = IF ran(1) /\ store.apiKey # Null /\ store.apiKey[1] # <<>>
                             THEN store.apiKey[1] ELSE apiKeyInput
           /\ systemMessage' = IF ran(2) /\ store.systemMessage # Null
                                  /\ store.systemMessage[1] # <<>>
                               THEN store.systemMessage[1] ELSE systemMessage
           /\ heap' = IF gotMsgs THEN msgs ELSE heap
           /\ messages' = IF gotMsgs THEN [i \in 1..Len(msgs) |-> i] ELSE messages
           /\ nextId' = IF gotMsgs
                        THEN MaxOf(Map(msgs, LAMBDA m : ParseInt(m.id)), 0) + 1
                        ELSE nextId
           /\ outputs' = IF gotOuts THEN outs ELSE outputs
           /\ nextOutputId' = IF gotOuts
                              THEN MaxOf(Map(outs, LAMBDA o : ParseInt(o.id)), 0) + 1
                              ELSE nextOutputId
           /\ rendered' = Map(msgs, LAMBDA m : m.id)
           /\ issued' = {msgs[i].id : i \in 1..Len(msgs)}
           /\ alert' = ""
    /\ phase' = "ready"
    /\ UNCHANGED <<draggedId, store, procVars>>

\* the page is reloaded: a new instance is constructed over the same store
Construct ==
    /\ phase = "ready"
    /\ heap' = <<>>
    /\ messages' = <<>>
    /\ nextId' = 1
    /\ draggedId' = Null
    /\ rendered' = <<>>
    /\ outputs' = <<>>
    /\ nextOutputId' = 1
    /\ apiKeyInput' = <<>>
    /\ systemMessage' = <<>>
    /\ flows' = [i \in 1..MaxFlows |-> IdleFlow]
    /\ loads' = {}
    /\ uploads' = {}
    /\ phase' = "loading"
    /\ issued' = {}
    /\ alert' = ""
    /\ UNCHANGED store

----------------------------------------------------------------------------
(* Message Management *)

SaveMessages(h, arr) == [store EXCEPT !.messages = Some(SerializableMessages(h, arr))]

\* an addItem that derives the id from the length of the list
AddItemByLength ==
    /\ phase = "ready"
    /\ LET r == NewRef(heap)
           id == String(Len(messages) + 1)
       IN  /\ Commit(heap @@ (r :> [id |-> id, text |-> <<>>, image |-> NoImage]),
                     Append(messages, r), flows, uploads)
           /\ issued' = issued \cup {id}
    /\ nextId' = nextId + 1
    /\ rendered' = IdsOf(heap', messages')
    /\ store' = SaveMessages(heap', messages')
    /\ alert' = ""
    /\ UNCHANGED <<draggedId, outVars, inputVars, loads, phase>>

\* addItem
AddItem ==
    /\ phase = "ready"
    /\ LET r == NewRef(heap)
           id == String(nextId)
       IN  /\ Commit(heap @@ (r :> [id |-> id, text |-> <<>>, image |-> NoImage]),
                     Append(messages, r), flows, uploads)
           /\ issued' = issued \cup {id}
    /\ nextId' = nextId + 1
    /\ rendered' = IdsOf(heap', messages')
    /\ store' = SaveMessages(heap', messages')
    /\ alert' = ""
    /\ UNCHANGED <<draggedId, outVars, inputVars, loads, phase>>

\* deleteMessage(id), from the delete button of a rendered item
DeleteMessage(id) ==
    /\ phase = "ready"
    /\ Commit(heap, SelectSeq(messages, LAMBDA r : heap[r].id # id),
              Detach(flows, messages), uploads)
    /\ rendered' = IdsOf(heap', messages')
    /\ store' = SaveMessages(heap', messages')
    /\ alert' = ""
    /\ UNCHANGED <<nextId, draggedId, issued, outVars, inputVars, loads, phase>>

\* a deleteAllMessages that also restarts the id counter
DeleteAllAndRestart ==
    /\ phase = "ready"
    /\ Commit(heap, <<>>, Detach(flows, messages), uploads)
    /\ nextId' = 1
    /\ rendered' = <<>>
    /\ store' = SaveMessages(heap', messages')
    /\ alert' = ""
    /\ UNCHANGED <<draggedId, issued, outVars, inputVars, loads, phase>>

\* deleteAllMessages
DeleteAllMessages ==
    /\ phase = "ready"
    /\ Commit(heap, <<>>, Detach(flows, messages), uploads)
    /\ rendered' = <<>>
    /\ store' = SaveMessages(heap', messages')
    /\ alert' = ""
    /\ UNCHANGED <<nextId, draggedId, issued, outVars, inputVars, loads, phase>>

\* an updateMessageText that renders the list as well
UpdateMessageTextRendered(id, text) ==
    /\ phase = "ready"
    /\ LET at == FindIndex(messages, LAMBDA r : heap[r].id = id)
       IN  IF at # 0
           THEN /\ heap' = [heap EXCEPT ![messages[at]].text = text]
                /\ flows' = Noting(flows, heap', messages)
                /\ store' = SaveMessages(heap', messages)
                /\ rendered' = IdsOf(heap', messages)
           ELSE UNCHANGED <<heap, flows, store, rendered>>
    /\ alert' = ""
    /\ UNCHANGED <<messages, nextId, draggedId, issued, outVars, inputVars,
                   loads, uploads, phase>>

\* updateMessageText(id, text), from the input event of a rendered textarea
UpdateMessageText(id, text) ==
    /\ phase = "ready"
    /\ LET at == FindIndex(messages, LAMBDA r : heap[r].id = id)
       IN  IF at # 0
           THEN /\ heap' = [heap EXCEPT ![messages[at]].text = text]
                /\ flows' = Noting(flows, heap', messages)
                /\ store' = SaveMessages(heap', messages)
           ELSE UNCHANGED <<heap, flows, store>>
    /\ alert' = ""
    /\ UNCHANGED <<messages, nextId, draggedId, rendered, issued, outVars, inputVars,
                   loads, uploads, phase>>

----------------------------------------------------------------------------
(* Drag and Drop for Reordering *)

\* handleDragStart, on a rendered item
HandleDragStart(id) ==
    /\ phase = "ready"
    /\ draggedId' = id
    /\ alert' = ""
    /\ UNCHANGED <<heap, messages, nextId, rendered, issued, outVars, inputVars,
                   store, procVars, phase>>

\* handleDragEnd
HandleDragEnd ==
    /\ phase = "ready"
    /\ draggedId # Null
    /\ draggedId' = Null
    /\ alert' = ""
    /\ UNCHANGED <<heap, messages, nextId, rendered, issued, outVars, inputVars,
                   store, procVars, phase>>

\* a move that forgets that removing the dragged item shifted the target
InsertIndexNaive(draggedIndex, targetIndex, isTop) ==
    IF isTop THEN targetIndex ELSE targetIndex + 1

\* where handleDrop reinserts the dragged message (0-based, as in the code)
InsertIndex(draggedIndex, targetIndex, isTop) ==
    IF draggedIndex < targetIndex
    THEN (IF isTop THEN targetIndex - 1 ELSE targetIndex)
    ELSE (IF isTop THEN targetIndex ELSE targetIndex + 1)

\* handleDrop on the rendered item targetId; isTop is clientY < midpoint
HandleDrop(targetId, isTop) ==
    /\ phase = "ready"
    /\ LET draggedIndex == FindIndex(messages, LAMBDA r : heap[r].id = draggedId) - 1
           targetIndex == FindIndex(messages, LAMBDA r : heap[r].id = targetId) - 1
       IN  IF draggedId = targetId
           THEN /\ UNCHANGED <<heap, messages, flows, uploads, rendered, store>>
                /\ alert' = ""
           ELSE IF draggedIndex = -1 \/ targetIndex = -1
           THEN /\ UNCHANGED <<heap, messages, flows, uploads, rendered, store>>
                /\ alert' = ""
           ELSE /\ Commit(heap,
                          InsertAt(RemoveAt(messages, draggedIndex + 1),
                                   InsertIndex(draggedIndex, targetIndex, isTop),
                                   messages[draggedIndex + 1]),
                          flows, uploads)
                /\ rendered' = IdsOf(heap', messages')
                /\ store' = SaveMessages(heap', messages')
                /\ alert' = ""
    /\ UNCHANGED <<nextId, draggedId, issued, outVars, inputVars, loads, phase>>

----------------------------------------------------------------------------
(* The Message List on its own: add, delete, edit and reorder *)

\* While the user drags an item the browser delivers no other input event:
\* between dragstart and dragend only drop and pending continuations run.
NoDrag == draggedId = Null

ListNext ==
    \/ \E failAt \in 0..4 : LoadState(failAt)
    \/ (NoDrag /\ nextId <= MaxListId /\ AddItem)
    \/ \E id \in Range(rendered) : (NoDrag /\ DeleteMessage(id))
    \/ (NoDrag /\ DeleteAllMessages)
    \/ \E id \in Range(rendered) : (NoDrag /\ HandleDragStart(id))
    \/ HandleDragEnd
    \/ \E id \in Range(rendered), isTop \in BOOLEAN : HandleDrop(id, isTop)

SpecList == Init /\ [][ListNext]_vars

----------------------------------------------------------------------------
(* Template Loader *)

B64Value(c) == (CHOOSE i \in 1..64 : B64Alphabet[i] = c) - 1

RECURSIVE Base64Decode(_)
\* the bytes a base64 text stands for; as in the data URL processor of fetch
\* the padding at the end may be left out
Base64Decode(t) ==
    IF Len(t) < 2 THEN <<>>
    ELSE LET a == B64Value(t[1])
             b == B64Value(t[2])
             first == a * 4 + b \div 16
         IN  IF Len(t) = 2 \/ t[3] = "=" THEN <<first>>
             ELSE LET c == B64Value(t[3])
                      second == (b % 16) * 16 + c \div 4
                  IN  IF Len(t) = 3 \/ t[4] = "=" THEN <<first, second>>
                      ELSE <<first, second, (c % 4) * 64 + B64Value(t[4])>>
                           \o Base64Decode(SubSeq(t, 5, Len(t)))

\* fetch(dataUrl) then response.blob(), for a base64 data URL:
\* data:<type>;base64,<data>
FetchBlob(dataUrl) ==
    LET pieces == SplitOn(dataUrl, ",", <<>>)
        header == SubSeq(pieces[1], Len(DATA_PREFIX) + 1, Len(pieces[1]))
    IN  [bytes |-> Base64Decode(pieces[2]), type |-> SplitOn(header, ";", <<>>)[1]]

\* the template of src/unnamed/part_000, its two texts shortened
TangibleInterface ==
    <<[role |-> "system", text |-> <<"Y", "o", "u">>, image |-> Null],
      [role |-> "user", text |-> <<"H", "e", "r", "e">>, image |-> Null]>>

\* a template whose two user entries carry images
TwoImages ==
    <<[role |-> "user", text |-> <<"h", "i">>,
       image |-> Some([dataUrl |-> blobToDataUrl(BlobPng)])],
      [role |-> "user", text |-> <<>>,
       image |-> Some([dataUrl |-> blobToDataUrl(BlobGif)])]>>

Templates == {TangibleInterface, TwoImages}

\* a template whose image is a data URL without the base64 padding
Unpadded ==
    <<[role |-> "user", text |-> <<"h", "i">>,
       image |-> Some([dataUrl |-> DATA_PREFIX \o IMAGE_PNG \o BASE64_MARK
                                     \o <<"i", "V", "A">>])]>>

\* a loader that makes an item of every entry, the system ones included
UserEntriesAll(t) == t

\* template.messages.filter((m) => m.role !== "system")
UserEntries(t) == SelectSeq(t, LAMBDA m : m.role # "system")

RECURSIVE PushEntries(_, _, _, _, _)
\* the loop of loadTemplate from entry k on, until it ends or awaits a fetch:
\* entries without an image are pushed; at an entry with an image the id is
\* taken and the loop suspends
PushEntries(entries, k, h, msgs, nid) ==
    IF k > Len(entries)
    THEN [heap |-> h, messages |-> msgs, nextId |-> nid, k |-> k,
          waiting |-> FALSE, taken |-> {}]
    ELSE IF entries[k].image # Null
    THEN [heap |-> h, messages |-> msgs, nextId |-> nid + 1, k |-> k,
          waiting |-> TRUE, taken |-> {String(nid)}]
    ELSE LET r == NewRef(h)
             rest == PushEntries(entries, k + 1,
                        h @@ (r :> [id |-> String(nid), text |-> entries[k].text,
                                    image |-> NoImage]),
                        Append(msgs, r), nid + 1)
         IN  [rest EXCEPT !.taken = rest.taken \cup {String(nid)}]

\* the number that tells a new loadTemplate call from the ones pending
FreeCall == CHOOSE n \in 1..(Cardinality(loads) + 1) : \A l \in loads : l.call # n

\* what the loadTemplate call number call does with the result of its loop:
\* it either suspends on a fetch, or renders and saves; st is the store so far
AfterPush(res, entries, call, others, fl, st) ==
    /\ Commit(res.heap, res.messages, fl, uploads)
    /\ nextId' = res.nextId
    /\ issued' = issued \cup res.taken
    /\ IF res.waiting
       THEN /\ loads' = others \cup {[call |-> call, entries |-> entries, k |-> res.k,
                                      id |-> String(res.nextId - 1)]}
            /\ rendered' = rendered
            /\ store' = st
       ELSE /\ loads' = others
            /\ rendered' = IdsOf(heap', messages')
            /\ store' = [st EXCEPT !.messages =
                            Some(SerializableMessages(heap', messages'))]

\* loadTemplate, from where the template module has been imported up to its
\* first fetch or its end
LoadTemplate(t) ==
    /\ phase = "ready"
    /\ LET systemMsg == FindIndex(t, LAMBDA m : m.role = "system")
           entries == UserEntries(t)
           res == PushEntries(entries, 1, heap, <<>>, 1)
       IN  /\ systemMessage' = IF systemMsg # 0 THEN t[systemMsg].text ELSE systemMessage
           /\ AfterPush(res, entries, FreeCall, loads, Detach(flows, messages),
                        IF systemMsg # 0
                        THEN [store EXCEPT !.systemMessage = Some(t[systemMsg].text)]
                        ELSE store)
    /\ alert' = ""
    /\ UNCHANGED <<draggedId, outVars, apiKeyInput, phase>>

\* a suspended loadTemplate resumes: the fetch and the blob have resolved
FetchDone(l) ==
    /\ phase = "ready"
    /\ l \in loads
    /\ LET msg == l.entries[l.k]
           blob == FetchBlob(msg.image[1].dataUrl)
           r == NewRef(heap)
           h == heap @@ (r :> [id |-> l.id, text |-> msg.text,
                               image |-> Some([blob |-> blob, mimeType |-> blob.type,
                                               dataUrl |-> msg.image[1].dataUrl])])
           res == PushEntries(l.entries, l.k + 1, h, Append(messages, r), nextId)
       IN  AfterPush(res, l.entries, l.call, loads \ {l}, flows, store)
    /\ alert' = ""
    /\ UNCHANGED <<draggedId, outVars, inputVars, phase>>

\* a suspended loadTemplate resumes with the fetch or the decoding rejected:
\* the catch block logs and alerts
FetchFail(l) ==
    /\ phase = "ready"
    /\ l \in loads
    /\ loads' = loads \ {l}
    /\ alert' = "Failed to load template."
    /\ UNCHANGED <<heap, messages, nextId, draggedId, rendered, issued, outVars,
                   inputVars, store, flows, uploads, phase>>

----------------------------------------------------------------------------
(* Image attachment and the two text inputs *)

\* the files the user may pick or paste: an image and a text file
Files == {BlobGif, BlobTxt}

\* an updateMessageImage that takes a file of any type
UpdateMessageImageAnyType(id, file) ==
    /\ phase = "ready"
    /\ LET at == FindIndex(messages, LAMBDA r : heap[r].id = id)
       IN  IF at = 0
           THEN /\ UNCHANGED uploads
                /\ alert' = ""
           ELSE /\ uploads' = uploads \cup {[ref |-> messages[at], file |-> file]}
                /\ alert' = ""
    /\ UNCHANGED <<heap, messages, nextId, draggedId, rendered, issued, outVars,
                   inputVars, store, flows, loads, phase>>

\* updateMessageImage(id, file) up to its await of blobToDataUrl
UpdateMessageImage(id, file) ==
    /\ phase = "ready"
    /\ LET at == FindIndex(messages, LAMBDA r : heap[r].id = id)
       IN  IF ~StartsWith(file.type, IMAGE_SLASH)
           THEN /\ UNCHANGED uploads
                /\ alert' = ""
           ELSE IF at = 0
           THEN /\ UNCHANGED uploads
                /\ alert' = ""
           ELSE /\ uploads' = uploads \cup {[ref |-> messages[at], file |-> file]}
                /\ alert' = ""
    /\ UNCHANGED <<heap, messages, nextId, draggedId, rendered, issued, outVars,
                   inputVars, store, flows, loads, phase>>

\* an updateMessageImage that keeps the data URL of the image it replaces
UploadDoneKeepUrl(u) ==
    /\ phase = "ready"
    /\ u \in uploads
    /\ Commit([heap EXCEPT ![u.ref].image =
                   Some([blob |-> u.file, mimeType |-> u.file.type,
                         dataUrl |-> IF heap[u.ref].image # NoImage
                                     THEN heap[u.ref].image[1].dataUrl
                                     ELSE blobToDataUrl(u.file)])],
              messages, flows, uploads \ {u})
    /\ rendered' = IdsOf(heap', messages')
    /\ store' = SaveMessages(heap', messages')
    /\ alert' = ""
    /\ UNCHANGED <<nextId, draggedId, issued, outVars, inputVars, loads, phase>>

\* updateMessageImage resumes with the data URL: the image is replaced
UploadDone(u) ==
    /\ phase = "ready"
    /\ u \in uploads
    /\ Commit([heap EXCEPT ![u.ref].image =
                   Some([blob |-> u.file, mimeType |-> u.file.type,
                         dataUrl |-> blobToDataUrl(u.file)])],
              messages, flows, uploads \ {u})
    /\ rendered' = IdsOf(heap', messages')
    /\ store' = SaveMessages(heap', messages')
    /\ alert' = ""
    /\ UNCHANGED <<nextId, draggedId, issued, outVars, inputVars, loads, phase>>

\* updateMessageImage resumes with the FileReader's error: nothing is changed
UploadFail(u) ==
    /\ phase = "ready"
    /\ u \in uploads
    /\ Commit(heap, messages, flows, uploads \ {u})
    /\ alert' = ""
    /\ UNCHANGED <<nextId, draggedId, rendered, issued, outVars, inputVars, store,
                   loads, phase>>

\* the input event of the API key field: saveApiKey(value.trim())
InputApiKey(v) ==
    /\ phase = "ready"
    /\ apiKeyInput' = v
    /\ store' = [store EXCEPT !.apiKey = Some(Trim(v))]
    /\ alert' = ""
    /\ UNCHANGED <<listVars, outVars, systemMessage, procVars, phase>>

\* the input event of the system message field: saveSystemMessage(value.trim())
InputSystemMessage(v) ==
    /\ phase = "ready"
    /\ systemMessage' = v
    /\ store' = [store EXCEPT !.systemMessage = Some(Trim(v))]
    /\ alert' = ""
    /\ UNCHANGED <<listVars, outVars, apiKeyInput, procVars, phase>>

----------------------------------------------------------------------------
(* The Message List with its asynchronous operations and page reloads *)

MsgNext ==
    \/ \E failAt \in 0..4 : LoadState(failAt)
    \/ (NoDrag /\ Construct)
    \/ (NoDrag /\ nextId <= MaxMsgId /\ AddItem)
    \/ \E id \in Range(rendered) : (NoDrag /\ DeleteMessage(id))
    \/ (NoDrag /\ DeleteAllMessages)
    \/ \E id \in Range(rendered), text \in SomeTexts :
          (NoDrag /\ UpdateMessageText(id, text))
    \/ \E id \in Range(rendered) : (NoDrag /\ HandleDragStart(id))
    \/ HandleDragEnd
    \/ \E id \in Range(rendered), isTop \in BOOLEAN : HandleDrop(id, isTop)
    \/ \E t \in Templates : (NoDrag /\ Cardinality(loads) < MaxLoads /\ LoadTemplate(t))
    \/ \E l \in loads : FetchDone(l)
    \/ \E l \in loads : FetchFail(l)
    \/ \E id \in Range(rendered), file \in Files :
          (NoDrag /\ Cardinality(uploads) < MaxUploads /\ UpdateMessageImage(id, file))
    \/ \E u \in uploads : UploadDone(u)
    \/ \E u \in uploads : UploadFail(u)

SpecMsg == Init /\ [][MsgNext]_vars

----------------------------------------------------------------------------
(* Template loads that overlap each other and additions *)

\* how many loadTemplate calls may be awaiting an image at once
MaxConcurrentLoads == 2

LoadsNext ==
    \/ LoadState(0)
    \/ (NoDrag /\ nextId <= MaxMsgId /\ AddItem)
    \/ \E id \in Range(rendered) : (NoDrag /\ DeleteMessage(id))
    \/ \E t \in Templates :
          (NoDrag /\ Cardinality(loads) < MaxConcurrentLoads /\ LoadTemplate(t))
    \/ \E l \in loads : FetchDone(l)
    \/ \E l \in loads : FetchFail(l)

SpecLoads == Init /\ [][LoadsNext]_vars

----------------------------------------------------------------------------
(* Images: overlapping attachments, templates with images, page reloads *)

\* how many updateMessageImage calls may be awaiting their data URL at once
MaxOverlap == 2

\* the files attached here: two images
ImageFiles == {BlobPng, BlobGif}

\* the templates loaded here: both carry images
ImageTemplates == {TwoImages, Unpadded}

ImageNext ==
    \/ LoadState(0)
    \/ (NoDrag /\ Construct)
    \/ (NoDrag /\ nextId <= MaxMsgId /\ AddItem)
    \/ \E t \in ImageTemplates :
          (NoDrag /\ Cardinality(loads) < MaxLoads /\ LoadTemplate(t))
    \/ \E l \in loads : FetchDone(l)
    \/ \E l \in loads : FetchFail(l)
    \/ \E id \in Range(rendered), file \in ImageFiles :
          (NoDrag /\ Cardinality(uploads) < MaxOverlap /\ UpdateMessageImage(id, file))
    \/ \E u \in uploads : UploadDone(u)
    \/ \E u \in uploads : UploadFail(u)

SpecImage == Init /\ [][ImageNext]_vars

----------------------------------------------------------------------------
(* Output Management *)

\* "https://placehold.co/800"
PLACEHOLDER_IMAGE ==
    <<"h", "t", "t", "p", "s", ":", "/", "/", "p", "l", "a", "c", "e", "h",
      "o", "l", "d", ".", "c", "o", "/", "8", "0", "0">>

\* "Generating..."
GENERATING ==
    <<"G", "e", "n", "e", "r", "a", "t", "i", "n", "g", ".", ".", ".">>

\* "Image successfully generated."
IMAGE_OK ==
    <<"I", "m", "a", "g", "e", " ", "s", "u", "c", "c", "e", "s", "s", "f",
      "u", "l", "l", "y", " ", "g", "e", "n", "e", "r", "a", "t", "e", "d",
      ".">>

\* "Generation complete, but no image was returned."
NO_IMAGE ==
    <<"G", "e", "n", "e", "r", "a", "t", "i", "o", "n", " ", "c", "o", "m",
      "p", "l", "e", "t", "e", ",", " ", "b", "u", "t", " ", "n", "o", " ",
      "i", "m", "a", "g", "e", " ", "w", "a", "s", " ", "r", "e", "t", "u",
      "r", "n", "e", "d", ".">>

\* "Text generation complete, but no text was returned."
NO_TEXT ==
    <<"T", "e", "x", "t", " ", "g", "e", "n", "e", "r", "a", "t", "i", "o",
      "n", " ", "c", "o", "m", "p", "l", "e", "t", "e", ",", " ", "b", "u",
      "t", " ", "n", "o", " ", "t", "e", "x", "t", " ", "w", "a", "s", " ",
      "r", "e", "t", "u", "r", "n", "e", "d", ".">>

\* "Error: "
ERROR_PREFIX ==
    <<"E", "r", "r", "o", "r", ":", " ">>

\* "An unknown error occurred."
UNKNOWN_ERROR ==
    <<"A", "n", " ", "u", "n", "k", "n", "o", "w", "n", " ", "e", "r", "r",
      "o", "r", " ", "o", "c", "c", "u", "r", "r", "e", "d", ".">>

ALERT_NO_KEY == "Please provide an API Key."
ALERT_NOTHING_TO_SEND ==
    "Please provide either a system message or at least one message item."

\* an addOutput that puts the new output at the end
AddOutputAtEnd(outs, n, showImage) ==
    outs \o <<[id |-> String(n),
               imageUrl |-> IF showImage THEN Some(PLACEHOLDER_IMAGE) ELSE Null,
               text |-> GENERATING,
               loading |-> TRUE]>>

\* addOutput(showImage): the new output goes to the top; the id is String(n)
AddOutput(outs, n, showImage) ==
    <<[id |-> String(n),
       imageUrl |-> IF showImage THEN Some(PLACEHOLDER_IMAGE) ELSE Null,
       text |-> GENERATING,
       loading |-> TRUE]>> \o outs

\* the position of the output updateOutput finds, 0 if there is none
FindOutput(outs, id) == FindIndex(outs, LAMBDA o : o.id = id)

\* an updateOutput that leaves the loading flag as it is
UpdateOutputKeepLoading(outs, id, imageUrl, text) ==
    LET at == FindOutput(outs, id)
    IN  IF at = 0 THEN outs
        ELSE [outs EXCEPT ![at] = [id |-> outs[at].id, imageUrl |-> imageUrl,
                                   text |-> text, loading |-> outs[at].loading]]

\* an updateOutput that takes the newest output, whatever its id
UpdateOutputTop(outs, id, imageUrl, text) ==
    IF outs = <<>> THEN outs
    ELSE [outs EXCEPT ![1] = [id |-> outs[1].id, imageUrl |-> imageUrl,
                              text |-> text, loading |-> FALSE]]

\* an updateOutput that puts back an output it does not find
UpdateOutputOrAdd(outs, id, imageUrl, text) ==
    LET at == FindOutput(outs, id)
        new == [id |-> id, imageUrl |-> imageUrl, text |-> text, loading |-> FALSE]
    IN  IF at = 0 THEN <<new>> \o outs
        ELSE [outs EXCEPT ![at] = new]

\* updateOutput(id, imageUrl, text): the list afterwards
UpdateOutput(outs, id, imageUrl, text) ==
    LET at == FindOutput(outs, id)
    IN  IF at = 0 THEN outs
        ELSE [outs EXCEPT ![at] = [id |-> outs[at].id, imageUrl |-> imageUrl,
                                   text |-> text, loading |-> FALSE]]

\* updateOutput calls saveOutputs only when it found the output
StoreAfterUpdate(outs, id, newOuts) ==
    IF FindOutput(outs, id) = 0 THEN store
    ELSE [store EXCEPT !.outputs = Some(SerializableOutputs(newOuts))]

\* deleteOutput(id), from the delete button of a rendered output
DeleteOutput(id) ==
    /\ phase = "ready"
    /\ outputs' = SelectSeq(outputs, LAMBDA o : o.id # id)
    /\ store' = [store EXCEPT !.outputs = Some(SerializableOutputs(outputs'))]
    /\ alert' = ""
    /\ UNCHANGED <<listVars, nextOutputId, inputVars, procVars, phase>>

\* deleteAllOutputs
DeleteAllOutputs ==
    /\ phase = "ready"
    /\ outputs' = <<>>
    /\ store' = [store EXCEPT !.outputs = Some(<<>>)]
    /\ alert' = ""
    /\ UNCHANGED <<listVars, nextOutputId, inputVars, procVars, phase>>

----------------------------------------------------------------------------
(* Generation Orchestrator *)

\* a validation that checks the API key only
ValidationKeyOnly(apiKey, systemMsg, items) ==
    IF apiKey = <<>> THEN ALERT_NO_KEY ELSE ""

\* a validation that looks for an item with something to send
ValidationByContent(apiKey, systemMsg, items) ==
    IF apiKey = <<>> THEN ALERT_NO_KEY
    ELSE IF systemMsg = <<>>
            /\ \A i \in 1..Len(items) :
                  items[i].image = NoImage /\ Trim(items[i].text) = <<>>
    THEN ALERT_NOTHING_TO_SEND
    ELSE ""

\* the two checks handleGenerateImage and handleGenerateText begin with:
\* the alert they show, "" if they show none
Validation(apiKey, systemMsg, items) ==
    IF apiKey = <<>> THEN ALERT_NO_KEY
    ELSE IF systemMsg = <<>> /\ Len(items) = 0 THEN ALERT_NOTHING_TO_SEND
    ELSE ""

\* the flows that are between addOutput and their last updateOutput
InFlight(f) == flows[f].pc \in {"encode", "submit", "stream"}

\* the slot the next generation flow is kept in
FreeSlot == CHOOSE f \in 1..MaxFlows :
                /\ ~InFlight(f)
                /\ \A g \in 1..(f - 1) : InFlight(g)

\* the flow after the serializer loop has stopped at r: awaiting
\* blobToBase64, or awaiting generateContentStream with the parts built
Serialized(fl, r) ==
    [fl EXCEPT !.pc = IF r.waiting THEN "encode" ELSE "submit",
               !.live = fl.live /\ r.waiting,
               !.arr = IF r.waiting THEN fl.arr ELSE <<>>,
               !.idx = IF r.waiting THEN r.idx ELSE 0,
               !.cur = r.cur,
               !.blob = r.blob,
               !.parts = r.parts,
               !.snapshot = r.waiting \/ r.parts \in fl.seen,
               !.seen = IF r.waiting THEN StillPossible(fl.seen, r.parts) ELSE {}]

\* handleGenerateImage / handleGenerateText up to their first await
HandleGenerate(kind) ==
    /\ phase = "ready"
    /\ LET apiKey == Trim(apiKeyInput)
           systemMsg == Trim(systemMessage)
           verdict == Validation(apiKey, systemMsg, ItemsOf(heap, messages))
       IN  IF verdict # ""
           THEN /\ alert' = verdict
                /\ UNCHANGED <<outputs, nextOutputId, flows>>
           ELSE /\ \E f \in 1..MaxFlows : ~InFlight(f)
                /\ LET started ==
                          [IdleFlow EXCEPT
                              !.kind = kind,
                              !.outputId = Some(String(nextOutputId)),
                              !.systemMsg = systemMsg,
                              !.config = IF kind = "text" /\ systemMsg # <<>>
                                         THEN Some(systemMsg) ELSE Null,
                              !.live = TRUE,
                              !.seen = {Snapshot(kind, systemMsg, heap, messages)}]
                       r == SerializeLoop(kind, heap, messages, 1,
                                          FirstParts(kind, systemMsg))
                   IN  flows' = [flows EXCEPT ![FreeSlot] = Serialized(started, r)]
                /\ outputs' = AddOutput(outputs, nextOutputId, kind = "image")
                /\ nextOutputId' = nextOutputId + 1
                /\ alert' = ""
    /\ UNCHANGED <<listVars, inputVars, store, loads, uploads, phase>>

HandleGenerateImage == HandleGenerate("image")
HandleGenerateText == HandleGenerate("text")

\* a catch clause that shows the error message as it is
CatchTextRaw(err) == err

\* the text the catch clauses give the output; err is error.message, <<>>
\* when the error has none
CatchText(err) == ERROR_PREFIX \o (IF err # <<>> THEN err ELSE UNKNOWN_ERROR)

\* the image the catch clauses give the output
CatchImage(kind) == IF kind = "image" THEN Some(PLACEHOLDER_IMAGE) ELSE Null

\* a flow that has returned after its last updateOutput: which it was and
\* how it ended
Returned(fl, pc, err) ==
    [IdleFlow EXCEPT !.pc = pc, !.kind = fl.kind, !.outputId = fl.outputId,
                     !.updates = fl.updates + 1, !.err = err]

\* the catch clause of handleGenerateImage / handleGenerateText
Caught(f, err) ==
    LET fl == flows[f]
    IN  /\ outputs' = UpdateOutput(outputs, fl.outputId[1], CatchImage(fl.kind),
                                   CatchText(err))
        /\ store' = StoreAfterUpdate(outputs, fl.outputId[1], outputs')
        /\ Commit(heap, messages, [flows EXCEPT ![f] = Returned(fl, "failed", Some(err))],
                  uploads)
        /\ alert' = ""
        /\ UNCHANGED <<nextId, draggedId, rendered, issued, nextOutputId, inputVars,
                       loads, phase>>

\* blobToBase64 resolves: the image part is pushed and the loop goes on
EncodeDone(f) ==
    /\ flows[f].pc = "encode"
    /\ LET fl == flows[f]
           message == heap[fl.cur]
           imagePart == InlinePart(blobToBase64(fl.blob[1]), message.image[1].mimeType)
           r == SerializeLoop(fl.kind, heap, IF fl.live THEN messages ELSE fl.arr,
                              fl.idx + 1, Append(fl.parts, imagePart))
       IN  Commit(heap, messages, [flows EXCEPT ![f] = Serialized(fl, r)], uploads)
    /\ alert' = ""
    /\ UNCHANGED <<nextId, draggedId, rendered, issued, outVars, inputVars, store,
                   loads, phase>>

\* blobToBase64 rejects with the FileReader's event, which has no message
EncodeFail(f) ==
    /\ flows[f].pc = "encode"
    /\ Caught(f, <<>>)

\* what generateContentStream and the stream may throw: error.message
ErrorMessages == {<<>>, <<"b", "a", "d">>}

\* generateContentStream resolves with the response stream
SubmitOk(f) ==
    /\ flows[f].pc = "submit"
    /\ flows' = [flows EXCEPT ![f].pc = "stream"]
    /\ alert' = ""
    /\ UNCHANGED <<listVars, outVars, inputVars, store, loads, uploads, phase>>

\* generateContentStream rejects
SubmitFail(f, err) ==
    /\ flows[f].pc = "submit"
    /\ Caught(f, err)

\* the chunks followed where it is the flows' interleaving that matters
SomeChunks ==
    {[image |-> Some([mimeType |-> IMAGE_PNG, data |-> Base64Encode(<<137, 80>>)]),
      text |-> <<>>],
     [image |-> Null, text |-> <<"o", "k">>],
     [image |-> Null, text |-> <<"H", "e">>]}

\* the chunks a stream may deliver: an image part (one of two images) or a
\* text part to the image flow, a text delta or none to the text flow
ImageChunks ==
    {[image |-> Some([mimeType |-> IMAGE_PNG, data |-> Base64Encode(<<137, 80>>)]),
      text |-> <<>>],
     [image |-> Some([mimeType |-> IMAGE_GIF, data |-> Base64Encode(<<71, 73, 70>>)]),
      text |-> <<>>],
     [image |-> Null, text |-> <<"o", "k">>]}
TextChunks ==
    {[image |-> Null, text |-> <<"H", "e">>],
     [image |-> Null, text |-> <<"l", "l", "o">>],
     [image |-> Null, text |-> <<>>]}
Chunks(kind) == IF kind = "image" THEN ImageChunks ELSE TextChunks

\* an accumulation that keeps the latest delta only
AccumulateLatest(text, delta) == delta

\* textContent += part.text / textContent += chunkText
Accumulate(text, delta) == text \o delta

\* a loop body that shows the text so far in the image flow as well
OutputsAfterChunkPreview(outs, fl, textContent) ==
    UpdateOutput(outs, fl.outputId[1], Null, textContent)

\* the Output List after the loop body has run for one chunk: the text flow
\* updates its output with the text so far, the image flow does not
OutputsAfterChunk(outs, fl, textContent) ==
    IF fl.kind = "image" THEN outs
    ELSE UpdateOutput(outs, fl.outputId[1], Null, textContent)

\* a count in which every chunk is an update, the image flow's too
UpdatesAfterChunkAlways(fl) == fl.updates + 1

\* the flow's calls of updateOutput after the loop body has run once more: the
\* text flow calls it once per chunk, the image flow does not call it
UpdatesAfterChunk(fl) ==
    IF fl.kind = "image" THEN fl.updates ELSE fl.updates + 1

\* one turn of "for await (const chunk of response)"
ChunkArrives(f, chunk) ==
    /\ flows[f].pc = "stream"
    /\ flows[f].chunks < MaxChunks
    /\ chunk \in Chunks(flows[f].kind)
    /\ LET fl == flows[f]
           textContent == Accumulate(fl.text, chunk.text)
       IN  /\ outputs' = OutputsAfterChunk(outputs, fl, textContent)
           /\ IF fl.kind = "image"
              THEN /\ flows' = [flows EXCEPT
                          ![f].images = IF chunk.image # Null
                                        THEN Append(@, DATA_PREFIX \o chunk.image[1].mimeType
                                                       \o BASE64_MARK \o chunk.image[1].data)
                                        ELSE @,
                          ![f].text = textContent,
                          ![f].chunks = @ + 1,
                          ![f].updates = UpdatesAfterChunk(fl)]
                   /\ UNCHANGED store
              ELSE /\ flows' = [flows EXCEPT ![f].text = textContent,
                                             ![f].chunks = @ + 1,
                                             ![f].updates = UpdatesAfterChunk(fl)]
                   /\ store' = StoreAfterUpdate(outputs, fl.outputId[1], outputs')
    /\ alert' = ""
    /\ UNCHANGED <<listVars, nextOutputId, inputVars, loads, uploads, phase>>

\* a final image that is the one received last
FinalImageUrlLast(fl) ==
    IF fl.kind = "text" THEN Null
    ELSE IF Len(fl.images) > 0 THEN Some(fl.images[Len(fl.images)])
    ELSE Some(PLACEHOLDER_IMAGE)

\* the image of the update after the loop: generatedImageUrls[0] or the
\* placeholder in the image flow, null in the text flow
FinalImageUrl(fl) ==
    IF fl.kind = "text" THEN Null
    ELSE IF Len(fl.images) > 0 THEN Some(fl.images[1])
    ELSE Some(PLACEHOLDER_IMAGE)

\* the text of the update after the loop
FinalText(fl) ==
    IF fl.text # <<>> THEN fl.text
    ELSE IF fl.kind = "text" THEN NO_TEXT
    ELSE IF Len(fl.images) > 0 THEN IMAGE_OK
    ELSE NO_IMAGE

\* the stream ends: the update after the loop
StreamEnd(f) ==
    /\ flows[f].pc = "stream"
    /\ LET fl == flows[f]
       IN  /\ outputs' = UpdateOutput(outputs, fl.outputId[1], FinalImageUrl(fl),
                                      FinalText(fl))
           /\ store' = StoreAfterUpdate(outputs, fl.outputId[1], outputs')
           /\ flows' = [flows EXCEPT ![f] = Returned(fl, "done", Null)]
    /\ alert' = ""
    /\ UNCHANGED <<listVars, nextOutputId, inputVars, loads, uploads, phase>>

\* the stream throws
StreamFail(f, err) ==
    /\ flows[f].pc = "stream"
    /\ Caught(f, err)

\* the steps a flow takes by itself once started
FlowStep(f) ==
    \/ EncodeDone(f)
    \/ EncodeFail(f)
    \/ SubmitOk(f)
    \/ \E err \in ErrorMessages : SubmitFail(f, err)
    \/ \E chunk \in SomeChunks : ChunkArrives(f, chunk)
    \/ StreamEnd(f)
    \/ \E err \in ErrorMessages : StreamFail(f, err)

OutputIds == {outputs[i].id : i \in 1..Len(outputs)}

----------------------------------------------------------------------------
(* Generation: concurrent flows over a list that is only added to *)

GenNext ==
    \/ \E failAt \in 0..4 : LoadState(failAt)
    \/ \E v \in Keys : (NoDrag /\ InputApiKey(v))
    \/ \E v \in SystemTexts : (NoDrag /\ InputSystemMessage(v))
    \/ (NoDrag /\ nextOutputId <= MaxOutputId /\ HandleGenerateImage)
    \/ (NoDrag /\ nextOutputId <= MaxOutputId /\ HandleGenerateText)
    \/ \E f \in 1..MaxFlows : EncodeDone(f)
    \/ \E f \in 1..MaxFlows : EncodeFail(f)
    \/ \E f \in 1..MaxFlows : SubmitOk(f)
    \/ \E f \in 1..MaxFlows, err \in ErrorMessages : SubmitFail(f, err)
    \/ \E f \in 1..MaxFlows, chunk \in SomeChunks : ChunkArrives(f, chunk)
    \/ \E f \in 1..MaxFlows : StreamEnd(f)
    \/ \E f \in 1..MaxFlows, err \in ErrorMessages : StreamFail(f, err)
    \/ (NoDrag /\ nextId <= MaxItemId /\ AddItem)
    \/ \E id \in OutputIds : (NoDrag /\ DeleteOutput(id))
    \/ (NoDrag /\ DeleteAllOutputs)

SpecGen == Init /\ [][GenNext]_vars

----------------------------------------------------------------------------
(* Generation, every started flow going on until it returns *)

FairNext ==
    \/ \E failAt \in 0..4 : LoadState(failAt)
    \/ \E v \in Keys : (NoDrag /\ InputApiKey(v))
    \/ (NoDrag /\ nextOutputId <= MaxOutputId /\ HandleGenerateImage)
    \/ (NoDrag /\ nextOutputId <= MaxOutputId /\ HandleGenerateText)
    \/ \E f \in 1..MaxFlows : FlowStep(f)
    \/ \E id \in OutputIds : (NoDrag /\ DeleteOutput(id))

\* the browser runs every continuation whose promise has settled, and the
\* stream of a flow ends or fails
FairGen == Init /\ [][FairNext]_vars /\ \A f \in 1..MaxFlows : WF_vars(FlowStep(f))

----------------------------------------------------------------------------
(* The streams: every chunk a flow may receive *)

StreamNext ==
    \/ \E failAt \in 0..4 : LoadState(failAt)
    \/ (NoDrag /\ nextOutputId <= MaxOutputId /\ HandleGenerateImage)
    \/ (NoDrag /\ nextOutputId <= MaxOutputId /\ HandleGenerateText)
    \/ \E f \in 1..MaxFlows : EncodeDone(f)
    \/ \E f \in 1..MaxFlows : EncodeFail(f)
    \/ \E f \in 1..MaxFlows : SubmitOk(f)
    \/ \E f \in 1..MaxFlows, err \in ErrorMessages : SubmitFail(f, err)
    \/ \E f \in 1..MaxFlows, chunk \in ImageChunks \cup TextChunks : ChunkArrives(f, chunk)
    \/ \E f \in 1..MaxFlows : StreamEnd(f)
    \/ \E f \in 1..MaxFlows, err \in ErrorMessages : StreamFail(f, err)
    \/ \E id \in OutputIds : (NoDrag /\ DeleteOutput(id))

SpecStream == Init /\ [][StreamNext]_vars

----------------------------------------------------------------------------
(* The Output List over sessions: creations, updates, deletions, reloads *)

OutputNext ==
    \/ \E failAt \in 0..4 : LoadState(failAt)
    \/ (NoDrag /\ Construct)
    \/ (NoDrag /\ nextOutputId <= MaxOutputId /\ HandleGenerateImage)
    \/ (NoDrag /\ nextOutputId <= MaxOutputId /\ HandleGenerateText)
    \/ \E f \in 1..MaxFlows : EncodeDone(f)
    \/ \E f \in 1..MaxFlows : EncodeFail(f)
    \/ \E f \in 1..MaxFlows : SubmitOk(f)
    \/ \E f \in 1..MaxFlows, err \in ErrorMessages : SubmitFail(f, err)
    \/ \E f \in 1..MaxFlows, chunk \in SomeChunks : ChunkArrives(f, chunk)
    \/ \E f \in 1..MaxFlows : StreamEnd(f)
    \/ \E f \in 1..MaxFlows, err \in ErrorMessages : StreamFail(f, err)
    \/ \E id \in OutputIds : (NoDrag /\ DeleteOutput(id))
    \/ (NoDrag /\ DeleteAllOutputs)

SpecOutput == Init /\ [][OutputNext]_vars

----------------------------------------------------------------------------
(* Serialization while the Message List is edited *)

\* no flow is in flight: here one generation is followed at a time
Quiet == \A f \in 1..MaxFlows : ~InFlight(f)

EditNext ==
    \/ \E failAt \in 0..4 : LoadState(failAt)
    \/ \E v \in Keys : (NoDrag /\ InputApiKey(v))
    \/ (NoDrag /\ Quiet /\ nextOutputId <= MaxOutputId /\ HandleGenerateImage)
    \/ (NoDrag /\ Quiet /\ nextOutputId <= MaxOutputId /\ HandleGenerateText)
    \/ \E f \in 1..MaxFlows : EncodeDone(f)
    \/ \E f \in 1..MaxFlows : EncodeFail(f)
    \/ \E f \in 1..MaxFlows : SubmitOk(f)
    \/ \E f \in 1..MaxFlows : StreamEnd(f)
    \/ (NoDrag /\ nextId <= MaxMsgId /\ AddItem)
    \/ \E id \in Range(rendered) : (NoDrag /\ DeleteMessage(id))
    \/ \E id \in Range(rendered), text \in Texts :
          (NoDrag /\ UpdateMessageText(id, text))
    \/ \E id \in Range(rendered) : (NoDrag /\ HandleDragStart(id))
    \/ HandleDragEnd
    \/ \E id \in Range(rendered), isTop \in BOOLEAN : HandleDrop(id, isTop)

SpecEdit == Init /\ [][EditNext]_vars

----------------------------------------------------------------------------
(* The whole program *)

Next == ListNext \/ MsgNext \/ GenNext \/ FairNext \/ StreamNext \/ EditNext

Spec == Init /\ [][Next]_vars

----------------------------------------------------------------------------
(* Properties of the Message List *)

\* the ids of this.messages, in order
Ids == IdsOf(heap, messages)

\* no two items of the Message List share an id
DistinctIds ==
    \A i, j \in 1..Len(messages) : i # j => Ids[i] # Ids[j]

\* an add step appends an item whose id this instance never handed out before
AddIssuesFreshId ==
    AddItem =>
        /\ Len(messages') = Len(messages) + 1
        /\ heap'[messages'[Len(messages')]].id \notin issued

\* C1: after any sequence of add, delete and reorder operations the ids of the
\* Message List are pairwise distinct, and no add issues an id that was issued
\* before (to a living or to a since-deleted item).
C1_UniqueIdsNoReissue == [](DistinctIds) /\ [][AddIssuesFreshId]_vars

\* three ids were issued, the second was deleted and the third added after it
C1_Witness ==
    /\ Ids = <<String(1), String(3)>>
    /\ issued = {String(1), String(2), String(3)}
    /\ nextId = 4

Without(ids, id) == SelectSeq(ids, LAMBDA x : x # id)
PositionOf(ids, id) == FindIndex(ids, LAMBDA x : x = id)

\* post is pre with dragged moved next to target, the others kept in order
PlacedAdjacent(pre, post, dragged, target, before) ==
    /\ Len(post) = Len(pre)
    /\ Without(post, dragged) = Without(pre, dragged)
    /\ PositionOf(post, dragged) # 0
    /\ PositionOf(post, dragged) =
           IF before THEN PositionOf(post, target) - 1
           ELSE PositionOf(post, target) + 1

\* C3: a drop of a dragged item on a distinct target, both in the list, leaves
\* the dragged item immediately before the target when insertBefore is true and
\* immediately after it when false, from either side, and keeps the relative
\* order of all other items.
C3_ReorderAdjacent ==
    [][\A targetId \in Range(rendered), isTop \in BOOLEAN :
          (/\ HandleDrop(targetId, isTop)
           /\ draggedId # targetId
           /\ draggedId \in Range(Ids)
           /\ targetId \in Range(Ids))
          => PlacedAdjacent(Ids, Ids', draggedId, targetId, isTop)]_vars

\* [1,2,3,4] with 1 dropped after 3 has become [2,3,1,4]
C3_Witness ==
    /\ draggedId = String(1)
    /\ Ids = <<String(2), String(3), String(1), String(4)>>

\* [1,2,3,4] with 4 dropped before 2 has become [1,4,2,3]
C3_WitnessUp ==
    /\ draggedId = String(4)
    /\ Ids = <<String(1), String(4), String(2), String(3)>>

\* the statement of C2 as claimed: no operation of an instance lowers the counter
C2_CounterNeverDecreases ==
    [][~Construct => nextId' >= nextId]_vars

\* C2 (amended): the id counter never decreases under add, delete, deleteAll,
\* updateText, updateImage, reorder and state load; only a template load lowers
\* it, restarting it at 1 and counting up once per non-system entry it reaches.
C2_CounterLoweredOnlyByTemplateLoad ==
    [][~Construct =>
        \/ nextId' >= nextId
        \/ \E t \in Templates :
              /\ LoadTemplate(t)
              /\ nextId' >= 1
              /\ nextId' <= Len(UserEntries(t)) + 1]_vars

\* a template load has restarted the counter below an id it had issued before
C2_Witness ==
    /\ nextId = 2
    /\ String(2) \in issued
    /\ loads = {}
    /\ Ids = <<String(1)>>

----------------------------------------------------------------------------
(* Properties of the generation flows *)

\* a click on "Generate Image" or on "Generate Text"
GenerateStep == HandleGenerateImage \/ HandleGenerateText

\* the API key is empty, or the system message is empty and the list has no item
Rejectable ==
    \/ Trim(apiKeyInput) = <<>>
    \/ (Trim(systemMessage) = <<>> /\ Len(messages) = 0)

\* C4: with an empty credential, or an empty system text and a Message List
\* without items, a generation request fails fast: an alert is shown, no flow
\* is started (no request), no Output is created, and the Output List, the
\* Message List and what is stored stay as they are.
C4_FailFast ==
    [][(GenerateStep /\ Rejectable) =>
          /\ alert' \in {ALERT_NO_KEY, ALERT_NOTHING_TO_SEND}
          /\ UNCHANGED <<outputs, nextOutputId, flows, heap, messages, rendered, store>>]_vars

C4_Witness ==
    /\ alert = ALERT_NOTHING_TO_SEND
    /\ Trim(apiKeyInput) # <<>>
    /\ Rejectable
    /\ outputs = <<>>

\* every item of the list has empty trimmed text and no image
AllItemsEmpty ==
    \A i \in 1..Len(messages) :
        heap[messages[i]].image = NoImage /\ Trim(heap[messages[i]].text) = <<>>

\* C5 as stated: with an empty system text and only fully empty items, no
\* generation request creates an Output or starts a flow.
C5_FullyEmptyRejected ==
    [][(GenerateStep /\ Trim(systemMessage) = <<>> /\ AllItemsEmpty) =>
          UNCHANGED <<outputs, flows>>]_vars

\* C5 amended: with a credential and an empty system text, a generation
\* request is rejected exactly when the Message List has no items; when the
\* list has items an Output is created, and if all of them are fully empty the
\* request goes out with an empty parts sequence.
C5_RejectedOnlyWithoutItems ==
    [][(GenerateStep /\ Trim(apiKeyInput) # <<>> /\ Trim(systemMessage) = <<>>) =>
          IF Len(messages) = 0
          THEN alert' = ALERT_NOTHING_TO_SEND /\ UNCHANGED <<outputs, flows>>
          ELSE /\ alert' = ""
               /\ Len(outputs') = Len(outputs) + 1
               /\ outputs'[1].loading
               /\ AllItemsEmpty =>
                     \E f \in 1..MaxFlows :
                        /\ flows'[f].pc = "submit"
                        /\ flows'[f].parts = <<>>
                        /\ flows'[f].outputId = Some(outputs'[1].id)]_vars

C5_Witness ==
    /\ Len(messages) > 0
    /\ AllItemsEmpty
    /\ \E f \in 1..MaxFlows :
          /\ flows[f].pc = "submit"
          /\ flows[f].parts = <<>>
          /\ flows[f].systemMsg = <<>>
          /\ \E i \in 1..Len(outputs) :
                Some(outputs[i].id) = flows[f].outputId /\ outputs[i].loading

\* the outputs with the id id: one at most
OutputsWith(outs, id) == SelectSeq(outs, LAMBDA o : o.id = id)

\* the output with the id String(n) is in the list and loading
Loading(n) == \E i \in 1..Len(outputs) : outputs[i].id = String(n) /\ outputs[i].loading

\* a flow that has returned has left its output, if still listed, not loading
NoneReturnedLoading ==
    \A f \in 1..MaxFlows :
        flows[f].pc \in {"done", "failed"} =>
            \A i \in 1..Len(outputs) :
                Some(outputs[i].id) = flows[f].outputId => ~outputs[i].loading

\* C6: no flow returns while its Output is listed with loading = TRUE, and,
\* every started flow going on until it returns, every loading Output
\* eventually is not loading or is gone from the Output List.
C6_NoHungOutput ==
    /\ []NoneReturnedLoading
    /\ \A n \in 1..MaxOutputId : Loading(n) ~> ~Loading(n)

C6_Witness ==
    \E f \in 1..MaxFlows :
        /\ flows[f].pc = "done"
        /\ flows[f].kind = "image"
        /\ \E i \in 1..Len(outputs) :
              Some(outputs[i].id) = flows[f].outputId /\ ~outputs[i].loading

\* C7: loading is cleared by the terminal update only: while a flow has not
\* returned, its Output, if still listed, is loading.
C7_LoadingUntilReturn ==
    \A f \in 1..MaxFlows :
        InFlight(f) =>
            \A i \in 1..Len(outputs) :
                Some(outputs[i].id) = flows[f].outputId => outputs[i].loading

\* C8: a flow whose serialization, submission or stream failed has returned
\* with the failure caught, and its Output, if still listed, is not loading,
\* has the text "Error: " followed by the failure's message (or by "An unknown
\* error occurred." when it has none), and has the placeholder image in the
\* image flow and no image in the text flow.
C8_FailureFinalizesOutput ==
    \A f \in 1..MaxFlows :
        flows[f].pc = "failed" =>
            /\ flows[f].err # Null
            /\ \A i \in 1..Len(outputs) :
                  Some(outputs[i].id) = flows[f].outputId =>
                      outputs[i] =
                         [id |-> flows[f].outputId[1],
                          imageUrl |-> IF flows[f].kind = "image"
                                       THEN Some(PLACEHOLDER_IMAGE) ELSE Null,
                          text |-> ERROR_PREFIX \o
                                   (IF flows[f].err[1] # <<>> THEN flows[f].err[1]
                                    ELSE UNKNOWN_ERROR),
                          loading |-> FALSE]

C8_Witness ==
    \E f \in 1..MaxFlows :
        /\ flows[f].pc = "failed"
        /\ flows[f].kind = "text"
        /\ flows[f].err = Some(<<"b", "a", "d">>)
        /\ OutputsWith(outputs, flows[f].outputId[1]) # <<>>

\* the ids in the Output List are pairwise distinct, and so are the ids of
\* the flows in flight
DistinctOutputIds ==
    /\ \A i, j \in 1..Len(outputs) : outputs[i].id = outputs[j].id => i = j
    /\ \A f, g \in 1..MaxFlows :
          (InFlight(f) /\ InFlight(g) /\ flows[f].outputId = flows[g].outputId) => f = g

\* a generation request that is accepted puts one Output, with an id no
\* listed Output and no flow in flight has, on top of the others
CreatesFreshOutput ==
    (GenerateStep /\ outputs' # outputs) =>
        /\ Tail(outputs') = outputs
        /\ outputs'[1].id \notin OutputIds
        /\ \A f \in 1..MaxFlows : InFlight(f) => flows[f].outputId # Some(outputs'[1].id)

\* a step of flow f leaves every Output but its own as it is, where it is
OwnOutputOnly(f) ==
    FlowStep(f) =>
        /\ Len(outputs') = Len(outputs)
        /\ \A i \in 1..Len(outputs) :
              Some(outputs[i].id) # flows[f].outputId => outputs'[i] = outputs[i]

\* the Output a flow that received the images and the text of fl leaves
\* when it runs alone and its stream ends
Alone(fl) ==
    [id |-> fl.outputId[1],
     imageUrl |-> IF fl.kind = "text" THEN Null
                  ELSE IF fl.images # <<>> THEN Some(fl.images[1])
                  ELSE Some(PLACEHOLDER_IMAGE),
     text |-> IF fl.text # <<>> THEN fl.text
              ELSE IF fl.kind = "text" THEN NO_TEXT
              ELSE IF fl.images # <<>> THEN IMAGE_OK
              ELSE NO_IMAGE,
     loading |-> FALSE]

\* when the stream of flow f ends, its Output, if listed, is the one it
\* leaves when it runs alone
EndsAsAlone(f) ==
    StreamEnd(f) =>
        \A i \in 1..Len(outputs') :
            Some(outputs'[i].id) = flows[f].outputId => outputs'[i] = Alone(flows[f])

\* C9: with several flows in flight, their steps interleaved, each flow's
\* Output has an id no other Output has, each flow changes only the Output
\* with its own id, and each Output ends as if its flow had run alone.
C9_FlowsDoNotInterfere ==
    /\ []DistinctOutputIds
    /\ [][CreatesFreshOutput]_vars
    /\ [][\A f \in 1..MaxFlows : OwnOutputOnly(f) /\ EndsAsAlone(f)]_vars

C9_Witness ==
    /\ flows[1].pc = "stream" /\ flows[1].chunks = 1
    /\ flows[2].pc = "stream" /\ flows[2].chunks = 1
    /\ Len(outputs) = 2

\* C10: the parts of a submitted request are the serialization of one state
\* the Message List was in while they were built.
C10_PartsAreOneSnapshot ==
    \A f \in 1..MaxFlows : flows[f].pc \in {"submit", "stream"} => flows[f].snapshot

----------------------------------------------------------------------------
(* Properties of the streams *)

\* the data URL of an image part with the bytes of blob
ImageUrlOf(blob) == DATA_PREFIX \o blob.type \o BASE64_MARK \o Base64Encode(blob.bytes)

\* C11: when the stream of an image flow ends, its Output, if listed, is not
\* loading and has the first image received and the accumulated text (or
\* "Image successfully generated." if that is empty), or, no image received,
\* the placeholder and the accumulated text (or "Generation complete, but no
\* image was returned." if that is empty); and the step removes no Output.
C11_ImageStreamCompletion ==
    [][\A f \in 1..MaxFlows :
          (StreamEnd(f) /\ flows[f].kind = "image") =>
              /\ flows'[f].pc = "done"
              /\ Len(outputs') = Len(outputs)
              /\ \A i \in 1..Len(outputs) :
                    Some(outputs[i].id) = flows[f].outputId =>
                        outputs'[i] =
                           [id |-> outputs[i].id,
                            imageUrl |-> IF flows[f].images # <<>>
                                         THEN Some(Head(flows[f].images))
                                         ELSE Some(PLACEHOLDER_IMAGE),
                            text |-> IF flows[f].text # <<>> THEN flows[f].text
                                     ELSE IF flows[f].images # <<>> THEN IMAGE_OK
                                     ELSE NO_IMAGE,
                            loading |-> FALSE]]_vars

\* an image flow has ended after the GIF image, and no text, had arrived
C11_Witness ==
    \E f \in 1..MaxFlows :
        /\ flows[f].pc = "done"
        /\ flows[f].kind = "image"
        /\ \E i \in 1..Len(outputs) :
              /\ Some(outputs[i].id) = flows[f].outputId
              /\ outputs[i].imageUrl = Some(ImageUrlOf(BlobGif))
              /\ outputs[i].text = IMAGE_OK

\* the Output of flow f in the list outs, if it is there, has the text t and
\* no image
OwnOutputShows(outs, f, t) ==
    \A i \in 1..Len(outs) :
        Some(outs[i].id) = flows[f].outputId =>
            outs[i].text = t /\ outs[i].imageUrl = Null

\* C12: a text flow starts its stream with an empty running text; each chunk
\* appends its delta to the running text and leaves the flow's Output, if
\* listed, with exactly that text, so that after k chunks the Output shows
\* the concatenation of the first k deltas; when the stream ends with a
\* non-empty running text the Output has that text, no image and is not
\* loading.
C12_TextStreamsIncrementally ==
    /\ [](\A f \in 1..MaxFlows :
            (flows[f].pc = "stream" /\ flows[f].chunks = 0) => flows[f].text = <<>>)
    /\ [][\A f \in 1..MaxFlows :
            flows[f].kind = "text" =>
               /\ \A chunk \in TextChunks :
                     ChunkArrives(f, chunk) =>
                        /\ flows'[f].text = flows[f].text \o chunk.text
                        /\ flows'[f].chunks = flows[f].chunks + 1
                        /\ Len(outputs') = Len(outputs)
                        /\ OwnOutputShows(outputs', f, flows[f].text \o chunk.text)
               /\ (StreamEnd(f) /\ flows[f].text # <<>>) =>
                     /\ Len(outputs') = Len(outputs)
                     /\ \A i \in 1..Len(outputs) :
                           Some(outputs[i].id) = flows[f].outputId =>
                              outputs'[i] = [id |-> outputs[i].id, imageUrl |-> Null,
                                             text |-> flows[f].text, loading |-> FALSE]]_vars

\* a text flow has received "He" and "llo" and its Output shows "Hello"
C12_Witness ==
    \E f \in 1..MaxFlows :
        /\ flows[f].pc = "stream"
        /\ flows[f].kind = "text"
        /\ flows[f].chunks = 2
        /\ \E i \in 1..Len(outputs) :
              /\ Some(outputs[i].id) = flows[f].outputId
              /\ outputs[i].text = <<"H", "e", "l", "l", "o">>

----------------------------------------------------------------------------
(* Properties of the serializer *)

RECURSIVE TextRun(_)
\* the parts of the items before the first item with an image, in order:
\* nothing for an item whose trimmed text is empty, one text part with the
\* trimmed text for any other
TextRun(items) ==
    IF items = <<>> \/ Head(items).image # NoImage THEN <<>>
    ELSE (IF Trim(Head(items).text) = <<>> THEN <<>>
          ELSE <<TextPart(Trim(Head(items).text))>>)
         \o TextRun(Tail(items))

HasImageItem(items) == \E i \in 1..Len(items) : items[i].image # NoImage

\* parts is: before parts, then the parts of the items up to the first item
\* with an image, then, if there is such an item, one part more
ContinuesWith(parts, before, items) ==
    /\ Len(parts) = before + Len(TextRun(items)) + (IF HasImageItem(items) THEN 1 ELSE 0)
    /\ SubSeq(parts, before + 1, before + Len(TextRun(items))) = TextRun(items)

\* the slot of the flow that owns the newest output of outs
Newest(fl, outs) == CHOOSE f \in 1..MaxFlows : fl[f].outputId = Some(outs[1].id)

\* C13: the serializer goes through the Message List in order; an item with
\* empty trimmed text and no image gives nothing, an item with text and no
\* image gives one text part with the trimmed text, in both modes. This is
\* stated of each run of the loop: from the start of a generation to the
\* first item with an image (or the end), and from the item after an encoded
\* image to the next item with an image (or the end).
C13_TextItemsInOrder ==
    /\ [][(outputs' # outputs /\ GenerateStep) =>
            LET f == Newest(flows', outputs')
                items == ItemsOf(heap, messages)
                before == IF flows'[f].kind = "image" /\ Trim(systemMessage) # <<>>
                          THEN 1 ELSE 0
            IN  /\ ContinuesWith(flows'[f].parts, before, items)
                /\ ~HasImageItem(items) => flows'[f].pc = "submit"]_vars
    /\ [][\A f \in 1..MaxFlows :
            EncodeDone(f) =>
               LET arr == IF flows[f].live THEN messages ELSE flows[f].arr
                   items == ItemsOf(heap, SubSeq(arr, flows[f].idx + 1, Len(arr)))
               IN  /\ ContinuesWith(flows'[f].parts, Len(flows[f].parts) + 1, items)
                   /\ SubSeq(flows'[f].parts, 1, Len(flows[f].parts)) = flows[f].parts
                   /\ ~HasImageItem(items) => flows'[f].pc = "submit"]_vars

\* the list [empty, {text: "hi"}] has been serialized to the one text part "hi"
C13_Witness ==
    /\ Len(messages) = 2
    /\ heap[messages[1]].image = NoImage /\ Trim(heap[messages[1]].text) = <<>>
    /\ heap[messages[2]].image = NoImage /\ heap[messages[2]].text = <<"h", "i">>
    /\ \E f \in 1..MaxFlows :
          /\ flows[f].pc = "submit"
          /\ flows[f].systemMsg = <<>>
          /\ flows[f].parts = <<TextPart(<<"h", "i">>)>>

\* the text part of an item with an image: "See image:" alone when the
\* trimmed text is empty, else the trimmed text, a newline in image mode or
\* a space in text mode, and "See image:"
PromptPart(kind, item) ==
    TextPart(IF Trim(item.text) = <<>> THEN SEE_IMAGE
             ELSE Trim(item.text)
                  \o (IF kind = "image" THEN <<"\n">> ELSE <<" ">>)
                  \o SEE_IMAGE)

FromItemsOnly(parts, kind, h, arr) == IsPrefix(parts, Snapshot(kind, <<>>, h, arr))

\* C15: a generation started with the system instruction sys (the trimmed
\* system text) has, in image mode, the text part sys as its first part when
\* sys is not empty, followed by parts of the message items only, and no
\* system field in its configuration; in text mode its configuration has the
\* system field sys when sys is not empty, and its parts are parts of the
\* message items only; with sys empty there is no system field and the parts
\* are parts of the message items only. Until the request is answered the
\* configuration and the first part stay so.
C15_SystemInstructionPlacement ==
    /\ [][(outputs' # outputs /\ GenerateStep) =>
            LET fl == flows'[Newest(flows', outputs')]
                sys == Trim(systemMessage)
            IN  /\ fl.systemMsg = sys
                /\ IF fl.kind = "image"
                   THEN /\ fl.config = Null
                        /\ IF sys # <<>>
                           THEN /\ Head(fl.parts) = TextPart(sys)
                                /\ FromItemsOnly(Tail(fl.parts), "image", heap, messages)
                           ELSE FromItemsOnly(fl.parts, "image", heap, messages)
                   ELSE /\ fl.config = (IF sys # <<>> THEN Some(sys) ELSE Null)
                        /\ FromItemsOnly(fl.parts, "text", heap, messages)]_vars
    /\ [](\A f \in 1..MaxFlows :
            flows[f].pc \in {"encode", "submit"} =>
               IF flows[f].kind = "image"
               THEN /\ flows[f].config = Null
                    /\ flows[f].systemMsg # <<>> =>
                          Head(flows[f].parts) = TextPart(flows[f].systemMsg)
               ELSE flows[f].config = (IF flows[f].systemMsg # <<>>
                                       THEN Some(flows[f].systemMsg) ELSE Null))

\* an image request and a text request are out, both with the system text "s"
C15_Witness ==
    \E f, g \in 1..MaxFlows :
        /\ flows[f].pc = "submit" /\ flows[f].kind = "image"
        /\ flows[f].parts # <<>> /\ Head(flows[f].parts) = TextPart(<<"s">>)
        /\ flows[g].pc = "submit" /\ flows[g].kind = "text"
        /\ flows[g].config = Some(<<"s">>)
        /\ \A i \in 1..Len(flows[g].parts) : flows[g].parts[i] # TextPart(<<"s">>)


----------------------------------------------------------------------------
(* Properties of the template loader and of persistence *)

\* the list item m was made from the template entry e
FromEntry(m, e) ==
    /\ m.text = e.text
    /\ IF e.image = Null THEN m.image = NoImage
       ELSE m.image # NoImage /\ m.image[1].dataUrl = e.image[1].dataUrl

\* C16: a template load that fails while fetching or decoding an entry's image
\* raises the user-facing error and leaves in the Message List no item made
\* from an entry that came before the failing one
C16_FailedLoadCommitsNothing ==
    [][\A l \in loads :
          FetchFail(l) =>
              /\ alert' = "Failed to load template."
              /\ \A j \in 1..(l.k - 1), i \in 1..Len(messages') :
                    ~FromEntry(heap'[messages'[i]], l.entries[j])]_vars

\* the entries of template t that are to become items, and the text of its
\* first system entry
NonSystem(t) == SelectSeq(t, LAMBDA m : m.role = "user" \/ m.role = "model")
SystemEntries(t) == SelectSeq(t, LAMBDA m : m.role = "system")

\* the list is one item per entry, in the entries' order
ItemsFrom(h, msgs, entries) ==
    /\ Len(msgs) = Len(entries)
    /\ \A j \in 1..Len(entries) : FromEntry(h[msgs[j]], entries[j])

\* a load of t starts: the system instruction becomes, and is stored as, the
\* text of the first system entry
SystemSet(t) ==
    SystemEntries(t) # <<>> =>
        /\ systemMessage' = SystemEntries(t)[1].text
        /\ store'.systemMessage = Some(SystemEntries(t)[1].text)

\* a load of t starts with this step; one that never awaits leaves the counter
\* one above the length of the list it built
Starts(t) ==
    /\ loads' # loads \/ nextId' = Len(messages') + 1
    /\ LoadTemplate(t)

\* the load l completes with this step
Completes(l) == loads' = loads \ {l} /\ FetchDone(l)

\* C17 as written: whenever a template load completes, the Message List is
\* exactly one item per non-system entry of the template, in template order,
\* with pairwise distinct ids, and the load has set the system instruction to
\* the text of the first system entry
C17_CompletedLoadIsTheTemplate ==
    [][/\ \A t \in Templates :
             Starts(t) =>
                 /\ SystemSet(t)
                 /\ loads' = loads =>
                        /\ ItemsFrom(heap', messages', NonSystem(t))
                        /\ DistinctIds'
       /\ \A l \in loads :
             Completes(l) =>
                 /\ \E t \in Templates : l.entries = NonSystem(t)
                 /\ ItemsFrom(heap', messages', l.entries)
                 /\ DistinctIds']_vars

\* C17: a template load sets the system instruction when it starts; when it
\* completes, and the Message List then holds exactly what the load itself has
\* pushed so far (always so for a load that never awaits an image), the
\* Message List is exactly one item per non-system entry, in template order,
\* with pairwise distinct ids, whatever the list held before the load
C17_UndisturbedLoadIsTheTemplate ==
    [][/\ \A t \in Templates :
             Starts(t) =>
                 /\ SystemSet(t)
                 /\ loads' = loads =>
                        /\ ItemsFrom(heap', messages', NonSystem(t))
                        /\ DistinctIds'
       /\ \A l \in loads :
             Completes(l) =>
                 /\ \E t \in Templates : l.entries = NonSystem(t)
                 /\ ItemsFrom(heap, messages, SubSeq(l.entries, 1, l.k - 1)) =>
                        /\ ItemsFrom(heap', messages', l.entries)
                        /\ DistinctIds']_vars

\* a load of the template with two images has completed undisturbed
C17_Witness ==
    /\ loads = {}
    /\ ItemsFrom(heap, messages, NonSystem(TwoImages))
    /\ DistinctIds
    /\ rendered = Ids
    /\ store.messages = Some(SerializableMessages(heap, messages))

\* the stored form of a list item: its id, text, blob and mimeType
StoredForm(m) ==
    [id |-> m.id, text |-> m.text,
     image |-> IF m.image = NoImage THEN NoImage
               ELSE Some([blob |-> m.image[1].blob, mimeType |-> m.image[1].mimeType])]

\* this step is a loadState that read the stored messages
LoadsMessages ==
    /\ phase = "loading" /\ phase' = "ready" /\ store.messages # Null
    /\ LoadState(0) \/ LoadState(4)

\* C18: every write of the Message List stores its items in order with their
\* id, text, blob and mimeType and without the dataUrl; a loadState that reads
\* them back makes a list of the same items in the same order with the same
\* id, text, blob and mimeType, and every image-bearing item gets the dataUrl
\* derived from its stored blob
C18_PersistenceRoundTrip ==
    [][/\ store'.messages # store.messages =>
              /\ store'.messages = Some(Map(ItemsOf(heap', messages'), StoredForm))
       /\ LoadsMessages =>
              /\ Map(ItemsOf(heap', messages'), StoredForm) = store.messages[1]
              /\ \A i \in 1..Len(messages') :
                    store.messages[1][i].image # NoImage =>
                        heap'[messages'[i]].image[1].dataUrl =
                            blobToDataUrl(store.messages[1][i].image[1].blob)
              /\ rendered' = Ids']_vars

\* an instance that handed out no id itself shows item "2" with the image that
\* an earlier instance attached and stored
C18_Witness ==
    /\ phase = "ready"
    /\ issued = {String(2)}
    /\ \E i \in 1..Len(messages) :
          /\ heap[messages[i]].id = String(2)
          /\ heap[messages[i]].image # NoImage
          /\ heap[messages[i]].image[1].blob = BlobGif
          /\ heap[messages[i]].image[1].dataUrl = blobToDataUrl(BlobGif)
    /\ store.messages = Some(Map(ItemsOf(heap, messages), StoredForm))

----------------------------------------------------------------------------
(* Properties of the updates a flow makes *)

\* the updateOutput calls a flow has made when it has received n chunks
UpdatesFor(kind, n) == IF kind = "text" THEN n ELSE 0

AsCreated(o) ==
    /\ o.loading
    /\ o.imageUrl = Some(PLACEHOLDER_IMAGE)
    /\ o.text = GENERATING

\* C20: from the creation of its Output until its stream has ended or failed,
\* an image flow leaves the Output as created: loading, with the placeholder
\* image and the "Generating..." text, however many chunks it has received;
\* a chunk it receives changes no Output at all and writes nothing to the store
C20_ImageFlowKeepsOutputUntouched ==
    /\ [](\A f \in 1..MaxFlows :
             (InFlight(f) /\ flows[f].kind = "image") =>
                 \A i \in 1..Len(outputs) :
                     outputs[i].id = flows[f].outputId[1] => AsCreated(outputs[i]))
    /\ [][\A f \in 1..MaxFlows :
             (flows[f].kind = "image" /\ flows[f].pc = "stream"
                 /\ flows'[f].pc = "stream" /\ flows'[f].chunks = flows[f].chunks + 1) =>
                 (outputs' = outputs /\ store' = store)]_vars

\* an image flow has received two chunks, an image among them, and its
\* Output is still listed
C20_Witness ==
    \E f \in 1..MaxFlows :
        /\ flows[f].pc = "stream" /\ flows[f].kind = "image"
        /\ flows[f].chunks = MaxChunks
        /\ flows[f].images # <<>>
        /\ flows[f].text # <<>>
        /\ \E i \in 1..Len(outputs) :
              outputs[i].id = flows[f].outputId[1] /\ AsCreated(outputs[i])

----------------------------------------------------------------------------
(* Properties of the images of the Message List *)

\* the items of the Message List that carry an image
ImageItems == {i \in 1..Len(messages) : heap[messages[i]].image # NoImage}

\* the data URL of the image is the encoding of its blob
Encoded(image) == image.dataUrl = blobToDataUrl(image.blob)

\* the data URLs the templates give their images
TemplateUrls ==
    {t[k].image[1].dataUrl : <<t, k>> \in
        {<<t, k>> \in ImageTemplates \X (1..2) : k <= Len(t) /\ t[k].image # Null}}

\* C21 as written: every item with an image has the data URL that encodes
\* its blob
C21_DisplayRefIsEncoding ==
    \A i \in ImageItems : Encoded(heap[messages[i]].image[1])

\* C21: the blob of every item with an image is what its data URL decodes to,
\* with the type the data URL names; the data URL is the encoding of the blob
\* unless it is the data URL of a template entry, which is kept as given; an
\* attachment that completes and a state load leave encodings only
C21_DisplayRefDecodesToRawData ==
    /\ [](\A i \in ImageItems :
             LET image == heap[messages[i]].image[1]
             IN  /\ image.blob = FetchBlob(image.dataUrl)
                 /\ image.mimeType = image.blob.type
                 /\ Encoded(image) \/ image.dataUrl \in TemplateUrls)
    /\ [][/\ \A u \in uploads :
                (uploads' = uploads \ {u} /\ UploadDone(u)) =>
                    \A i \in 1..Len(messages) :
                        messages[i] = u.ref =>
                            /\ i \in ImageItems'
                            /\ Encoded(heap'[messages'[i]].image[1])
                            /\ heap'[messages'[i]].image[1].blob = u.file
          /\ (phase = "loading" /\ phase' = "ready") =>
                \A i \in ImageItems' : Encoded(heap'[messages'[i]].image[1])]_vars

\* one item shows the template's data URL, which is not the encoding of its
\* blob, and two attachments of different images are pending for one other
\* item, which carries an image that is the encoding of its blob
C21_Witness ==
    /\ \E i \in ImageItems : ~Encoded(heap[messages[i]].image[1])
    /\ \E u, v \in uploads :
          /\ u.ref = v.ref /\ u.file # v.file
          /\ heap[u.ref].image # NoImage
          /\ Encoded(heap[u.ref].image[1])
          /\ \E i \in ImageItems : messages[i] = u.ref

----------------------------------------------------------------------------
(* Properties of the Output List *)

NoneLoading(outs) == \A i \in 1..Len(outs) : ~outs[i].loading

\* C22: the stored outputs never hold an entry that is loading, whatever
\* creations, streaming updates, deletions and saves have happened, every write
\* stores the outputs that are not loading in their order, and the Output List
\* a loadState leaves holds no loading entry
C22_NoLoadingOutputPersisted ==
    /\ [](store.outputs # Null => NoneLoading(store.outputs[1]))
    /\ [][/\ store'.outputs # store.outputs =>
                store'.outputs = Some(SelectSeq(outputs', LAMBDA o : ~o.loading))
          /\ (phase = "loading" /\ phase' = "ready") => NoneLoading(outputs')]_vars

\* a finished output is stored while the output of a flow still in flight is
\* listed above it, loading and not stored
C22_Witness ==
    /\ store.outputs # Null
    /\ Len(outputs) = 2
    /\ outputs[1].loading
    /\ ~outputs[2].loading
    /\ store.outputs[1] = <<outputs[2]>>
    /\ \E f \in 1..MaxFlows : InFlight(f) /\ flows[f].outputId = Some(outputs[1].id)

\* the ids of the Output List as numbers, front to back
OutputNumbers == Map(outputs, LAMBDA o : ParseInt(o.id))

\* C23: a created Output goes to the front of the Output List with an id above
\* every id listed, so the list is at all times in strictly descending order of
\* creation id from front to back, whatever creations, updates, deletions and
\* state loads have happened
C23_OutputsNewestFirst ==
    /\ [](\A i, j \in 1..Len(outputs) : i < j => OutputNumbers[i] > OutputNumbers[j])
    /\ [][(phase = "ready" /\ nextOutputId' = nextOutputId + 1) =>
             /\ outputs' = <<outputs'[1]>> \o outputs
             /\ outputs'[1].id = String(nextOutputId)
             /\ outputs'[1].loading]_vars

\* the second Output created is listed, loading, above the first, which has
\* been updated
C23_Witness ==
    /\ Len(outputs) = 2
    /\ outputs[1].id = String(2) /\ outputs[1].loading
    /\ outputs[2].id = String(1) /\ ~outputs[2].loading

\* the flow f is running or has just returned, and its Output is not listed
OutputGone(f) ==
    /\ flows[f].pc \in {"encode", "submit", "stream"}
    /\ flows[f].outputId # Null
    /\ flows[f].outputId[1] \notin OutputIds

\* this step is one of flow f's own: it moves on, receives a chunk or returns
StepOf(f) ==
    /\ flows[f].pc \in {"encode", "submit", "stream"}
    /\ flows'[f] # flows[f]
    /\ flows'[f].outputId = flows[f].outputId

\* C27: once the Output of a flow in flight has been removed, every later step
\* of that flow, a streaming update, the final update or the error update,
\* leaves the Output List and the stored outputs as they are: the Output is
\* not added again and no other Output is changed
C27_UpdatesOfDeletedOutputChangeNothing ==
    [][\A f \in 1..MaxFlows :
          (OutputGone(f) /\ StepOf(f)) =>
              (outputs' = outputs /\ store'.outputs = store.outputs)]_vars

\* a text flow has returned after its Output was removed while another Output
\* is listed: the flow has made its streaming and final updates for nothing
C27_Witness ==
    \E f \in 1..MaxFlows :
        /\ flows[f].pc = "done" /\ flows[f].kind = "text"
        /\ flows[f].updates >= 2
        /\ flows[f].outputId[1] \notin OutputIds
        /\ outputs # <<>>

----------------------------------------------------------------------------
(* Properties of the operations on the Message List *)

Items == ItemsOf(heap, messages)

\* the image updateMessageImage makes of a file
ImageOf(file) ==
    Some([blob |-> file, mimeType |-> file.type, dataUrl |-> blobToDataUrl(file)])

\* C24: updateMessageImage with a file whose type is not an image type changes
\* nothing, neither the Message List nor what is rendered or stored, and
\* leaves no call pending; with an image type it changes nothing until the
\* data URL is there and then replaces the image of the target item, still the
\* same object, as a whole, keeping its id and text, every other item and all
\* positions; no item ever carries a file that is not an image
C24_UpdateImageFrame ==
    /\ [](\A i \in 1..Len(messages) :
             heap[messages[i]].image # NoImage =>
                 StartsWith(heap[messages[i]].image[1].mimeType, IMAGE_SLASH))
    /\ [][/\ \A id \in Range(rendered), file \in Files :
                UpdateMessageImage(id, file) =>
                    /\ Items' = Items /\ rendered' = rendered /\ store' = store
                    /\ ~StartsWith(file.type, IMAGE_SLASH) => uploads' = uploads
          /\ \A u \in uploads :
                (uploads' = uploads \ {u} /\ UploadDone(u)) =>
                    /\ Len(messages') = Len(messages)
                    /\ \A i \in 1..Len(messages) :
                          Items'[i] = IF messages[i] = u.ref
                                      THEN [Items[i] EXCEPT !.image = ImageOf(u.file)]
                                      ELSE Items[i]]_vars

\* the image of the first item has been replaced by the file attached; its
\* text and the item below it are as they were stored
C24_Witness ==
    /\ Len(messages) = 2
    /\ Items[1] = [id |-> String(1), text |-> <<"h", "i">>, image |-> ImageOf(BlobGif)]
    /\ Items[2] = [id |-> String(2), text |-> <<>>, image |-> NoImage]
    /\ uploads = {}

\* the list is stored as it is, and drawn as it is
Written == store.messages = Some(SerializableMessages(heap, messages))
Drawn == rendered = Ids

\* this step changes the Message List within a session
Mutation ==
    /\ phase = "ready" /\ phase' = "ready"
    /\ heap' # heap \/ messages' # messages
    /\ Items' # Items

\* this step is an updateMessageText
TextStep ==
    /\ messages' = messages /\ nextId' = nextId /\ loads' = loads
    /\ \E id \in Range(rendered), text \in Texts : UpdateMessageText(id, text)

\* this step belongs to a template load that is suspended after it
LoadSuspends == loads' # loads /\ Cardinality(loads') >= Cardinality(loads)

C26_IdsDistinctUnderInterleavings ==
    \A i, j \in 1..Len(messages) :
        i # j => heap[messages[i]].id # heap[messages[j]].id

====
